---- MODULE Spec2Model ----
(***************************************************************************)
(* Authentication and session core of the ML Workflow Platform:            *)
(* JWTManager, RateLimiter (src/shared/auth.py), SessionManager            *)
(* (src/shared/session.py), AuthService (services/user_management/         *)
(* service.py) and the UserRepository lookups they rely on; UserService    *)
(* with the verification and reset token registries                        *)
(* (services/user_management/email_service.py) and its auth routes.        *)
(*                                                                         *)
(* Time is counted in whole minutes of UTC.  The process's local clock is  *)
(* now + tz, tz being the zone offset of the host in minutes.              *)
(***************************************************************************)
EXTENDS Integers, Sequences, FiniteSets, TLC

\* ---------------------------------------------------------------- settings
jwt_access_token_expire_minutes == 30
jwt_refresh_token_expire_days == 7
max_attempts == 5
window_minutes == 15
verification_hours == 24
reset_hours == 1

\* timedelta(minutes=...) and timedelta(days=...) in minutes
AccessTtl == jwt_access_token_expire_minutes
RefreshTtl == jwt_refresh_token_expire_days * 24 * 60

\* ------------------------------------------------------------------ bounds
MaxSessions == 2
MaxTokens == 4
MaxCalls == 6
MaxLogins == 2
MaxMinted == 2
MaxTimeCodec == 40
MaxTimeRate == 16
MaxTimeLife == 10100
MaxMailTokens == 2
MaxPending == 2
MaxTimeShort == 100
MaxTimeMail == 1500
MaxTimeSess == 15200

\* zone offsets of the host (minutes): UTC-5, UTC, UTC+5:30
TzOffsets == {0 - 300, 0, 330}

\* steps by which the clock is observed to advance, per specification
CodecSteps == {20}
RateSteps == {7, 8}
LongStep == RefreshTtl
SessionStep == RefreshTtl \div 2 + 1

\* ------------------------------------------------------------------ values
None == "None"
UserIds == {"u1", "u2"}
Passwords == {"Secret123!", "wrong"}
ClientIps == {None, "10.0.0.1"}

\* claims maps handed to the codec directly (tests/test_health.py:31)
ClaimsMaps ==
    { [sub |-> "testuser", role |-> "admin"],
      [sub |-> "u1", session_id |-> "1"],
      [sub |-> "u2", type |-> "refresh"] }

VARIABLES
    now,                \* datetime.utcnow(), minutes
    tz,                 \* local zone offset of the process, minutes
    users,              \* users table: id -> row
    redis_client,       \* SessionManager.redis_client is set (TRUE) or None
    redis_up,           \* the Redis server answers commands
    redis_store,        \* Redis keys "session:<id>": id -> session_data + TTL
    memory_sessions,    \* SessionManager._memory_sessions
    attempts,           \* RateLimiter._attempts: identifier -> <<timestamp>>
    tokens,             \* tokens issued so far (held by clients)
    next_sid,           \* number of uuid4 session ids drawn
    next_jti,           \* number of jti values drawn
    result,             \* outcome of the last call
    minted,             \* history: jti -> claims and time handed to the codec
    revoked,            \* history: <<session id, by>> of the sessions that
                        \*   logout ("logout") or the orphan cleanup ("orphan")
                        \*   has deleted
    auth_log,           \* history: identifier -> <<time, failed>> of the calls
                        \*   authenticate_user let past the rate limit
    seen,               \* history: <<cause, error>> of the verify_token calls
                        \*   that failed (direct calls of the codec)
    verification_tokens, \* EmailVerificationService._verification_tokens
    reset_tokens,       \* PasswordResetService._reset_tokens
    next_tok,           \* number of secrets.token_urlsafe values drawn
    pending,            \* UserService calls suspended at an await
    token_log,          \* history: <<event, token>> of the mail tokens
    roles,              \* roles table: id -> row
    permissions,        \* permissions table: id -> row
    session_log         \* history: session id -> times of create and of the
                        \*   last get that returned it, and whether delete
                        \*   was called (direct calls of SessionManager)

vars == << now, tz, users, redis_client, redis_up, redis_store,
           memory_sessions, attempts, tokens, next_sid, next_jti, result,
           minted, revoked, auth_log, seen, verification_tokens,
           reset_tokens, next_tok, pending, token_log, roles, permissions,
           session_log >>

\* the state of UserService and its token registries
mailvars == << verification_tokens, reset_tokens, next_tok, pending, token_log >>

\* the role directory and the history of the direct SessionManager calls
extvars == << roles, permissions, session_log >>

\* dict.get(key) with default None
Get(d, k) == IF k \in DOMAIN d THEN d[k] ELSE None

\* d[k] = v and del d[k] (no effect when k is absent)
Put(f, k, v) == [x \in DOMAIN f \cup {k} |-> IF x = k THEN v ELSE f[x]]

Drop(f, k) == [x \in DOMAIN f \ {k} |-> f[x]]

\* x = ...; then the statements F that use x
With(x, F(_)) == F(x)

\* ------------------------------------------------------------- JWTManager
\* jwt.encode of to_encode = data.copy() updated with exp, type and jti
Encode(data, kind, ttl, t, jti) ==
    [ form |-> "ok",
      payload |-> [exp |-> t + ttl, type |-> kind, jti |-> jti] @@ data ]

create_access_token(data, t, jti) == Encode(data, "access", AccessTtl, t, jti)

create_refresh_token(data, t, jti) == Encode(data, "refresh", RefreshTtl, t, jti)

HTTP_401 == "HTTPException(401, Could not validate credentials)"

\* variant: the error raised tells an expired token from an invalid one
RejectedByCause(cause) ==
    [ ok |-> FALSE, cause |-> cause,
      err |-> IF cause = "expired" THEN "TokenExpired" ELSE "TokenInvalid",
      payload |-> <<>> ]

\* "except JWTError": every failure is raised as the same HTTPException
Rejected(cause) == [ok |-> FALSE, cause |-> cause, err |-> HTTP_401, payload |-> <<>>]

\* jose.jwt.decode: signature and structure, then the exp claim against UTC
JoseDecode(token, t) ==
    IF token.form = "badsig" THEN Rejected("bad_signature")
    ELSE IF token.form # "ok" THEN Rejected("malformed")
    ELSE IF "exp" \in DOMAIN token.payload /\ token.payload["exp"] < t
         THEN Rejected("expired")
    ELSE [ok |-> TRUE, cause |-> "", err |-> "", payload |-> token.payload]

\* datetime.fromtimestamp(exp) is local time, datetime.utcnow() is UTC
FromTimestamp(exp, off) == exp + off

\* variant: the type claim is not compared
verify_token_any_type(token, token_type, t, off) ==
    With(JoseDecode(token, t), LAMBDA d :
    IF ~d.ok THEN d
    ELSE IF /\ "exp" \in DOMAIN d.payload
            /\ d.payload["exp"] # 0
            /\ FromTimestamp(d.payload["exp"], off) < t
         THEN Rejected("expired")
    ELSE d)

verify_token(token, token_type, t, off) ==
    With(JoseDecode(token, t), LAMBDA d :
    IF ~d.ok THEN d
    ELSE IF Get(d.payload, "type") # token_type THEN Rejected("wrong_type")
    ELSE IF /\ "exp" \in DOMAIN d.payload
            /\ d.payload["exp"] # 0
            /\ FromTimestamp(d.payload["exp"], off) < t
         THEN Rejected("expired")
    ELSE d)

\* --------------------------------------------------------- PasswordManager
hash_password(password) == <<"$2b$", password>>

verify_password(plain_password, hashed_password) ==
    hashed_password = <<"$2b$", plain_password>>

\* ---------------------------------------------------------- UserRepository
Row(username, email, password, role_names) ==
    [ username |-> username, email |-> email,
      password_hash |-> hash_password(password), roles |-> role_names,
      is_active |-> TRUE, is_verified |-> FALSE ]

\* the users table as scripts/seed_data.py leaves it: an admin and a user
SeedUsers ==
    [ u \in UserIds |->
        [ IF u = "u1"
          THEN Row("alice", "alice@example.com", "Secret123!", {"admin"})
          ELSE Row("bob", "bob@example.com", "Secret123!", {})
          EXCEPT !.is_verified = TRUE ] ]

\* the roles and permissions tables as scripts/seed_data.py leaves them
SeedRoles ==
    [ r \in {"r1", "r2"} |->
        [ name |-> IF r = "r1" THEN "admin" ELSE "data_scientist",
          permission_ids |-> IF r = "r1" THEN {"p1"} ELSE {},
          is_active |-> TRUE ] ]

SeedPermissions ==
    [ q \in {"p1"} |->
        [ name |-> "project.create", resource |-> "project",
          action |-> "create", is_active |-> TRUE ] ]

\* names a client may submit in LoginRequest.username
LoginNames == {"alice", "bob@example.com", "mallory"}

\* variant: the row is read whatever is_active says
get_by_id_any(tbl, user_id) ==
    IF user_id \in DOMAIN tbl THEN user_id ELSE None

\* select(User).where(id == user_id, is_active == True).scalar_one_or_none()
get_by_id(tbl, user_id) ==
    IF user_id \in DOMAIN tbl /\ tbl[user_id].is_active THEN user_id ELSE None

get_by_username_or_email(tbl, identifier) ==
    LET hit == { u \in DOMAIN tbl :
                    /\ tbl[u].username = identifier \/ tbl[u].email = identifier
                    /\ tbl[u].is_active }
    IN IF hit = {} THEN None ELSE CHOOSE u \in hit : TRUE

get_by_email(tbl, email) ==
    LET hit == { u \in DOMAIN tbl : tbl[u].email = email /\ tbl[u].is_active }
    IN IF hit = {} THEN None ELSE CHOOSE u \in hit : TRUE

\* variant: a row already inactive is deleted again
repo_delete_again(tbl, user_id) ==
    IF user_id \notin DOMAIN tbl
    THEN [tbl |-> tbl, ret |-> FALSE]
    ELSE [tbl |-> [tbl EXCEPT ![user_id].is_active = FALSE], ret |-> TRUE]

\* UserRepository.delete: the new users table and the returned bool
repo_delete(tbl, user_id) ==
    IF get_by_id(tbl, user_id) = None
    THEN [tbl |-> tbl, ret |-> FALSE]
    ELSE [tbl |-> [tbl EXCEPT ![user_id].is_active = FALSE], ret |-> TRUE]

\* ------------------------------------------------------------- RateLimiter
RECURSIVE SumCounts(_)
SumCounts(entries) ==
    IF entries = <<>> THEN 0
    ELSE Head(entries)[2] + SumCounts(Tail(entries))

\* variant: an entry exactly window_minutes old still counts
InWindowInclusive(entry, t) == entry[1] >= t - window_minutes

InWindow(entry, t) == entry[1] > t - window_minutes

\* is_rate_limited, its effect on _attempts: entries out of the window go
CleanOld(att, identifier, t) ==
    IF identifier \in DOMAIN att
    THEN [att EXCEPT ![identifier] = SelectSeq(@, LAMBDA e : InWindow(e, t))]
    ELSE att

\* variant: the threshold itself is still admitted
is_rate_limited_above(att, identifier, t) ==
    LET cleaned == CleanOld(att, identifier, t)
        entries == IF identifier \in DOMAIN cleaned THEN cleaned[identifier] ELSE <<>>
    IN SumCounts(entries) > max_attempts

\* is_rate_limited, its return value
is_rate_limited(att, identifier, t) ==
    LET cleaned == CleanOld(att, identifier, t)
        entries == IF identifier \in DOMAIN cleaned THEN cleaned[identifier] ELSE <<>>
    IN SumCounts(entries) >= max_attempts

\* variant: a success resets the identifier's list
record_attempt_resetting(att, identifier, failed, t) ==
    IF failed
    THEN Put(att, identifier,
             Append(IF identifier \in DOMAIN att THEN att[identifier] ELSE <<>>,
                    <<t, 1>>))
    ELSE Put(att, identifier, <<>>)

record_attempt(att, identifier, failed, t) ==
    LET withKey == IF identifier \in DOMAIN att
                   THEN att
                   ELSE [k \in DOMAIN att \cup {identifier} |->
                            IF k \in DOMAIN att THEN att[k] ELSE <<>>]
    IN IF failed
       THEN [withKey EXCEPT ![identifier] = Append(@, <<t, 1>>)]
       ELSE withKey

\* ---------------------------------------------------------- SessionManager
\* str(uuid.uuid4()): the n-th id drawn
uuid4(n) == ToString(n)

SessionData(user_id, user_data, t) ==
    [ user_id |-> user_id, user_data |-> user_data,
      created_at |-> t, last_accessed |-> t ]

\* redis.setex(key, timedelta(days=jwt_refresh_token_expire_days), value)
Setex(store, sid, data, t) ==
    Put(store, sid, [data |-> data, expires |-> t + RefreshTtl])

\* The operators below return the new Redis keys, the new memory map and the
\* value returned (found: the value is a session, not None).  up: the Redis
\* commands of this call succeed; when not, they raise and the except
\* branches run.
create_session(client, up, store, mem, sid, user_id, user_data, t) ==
    LET data == SessionData(user_id, user_data, t) IN
    IF client /\ up
    THEN [store |-> Setex(store, sid, data, t), mem |-> mem, ret |-> sid]
    ELSE [store |-> store, mem |-> Put(mem, sid, data), ret |-> sid]

get_session(client, up, store, mem, sid, t) ==
    IF client
    THEN IF up
         THEN IF sid \in DOMAIN store
              THEN LET data == [store[sid].data EXCEPT !.last_accessed = t]
                   IN [ store |-> Setex(store, sid, data, t), mem |-> mem,
                        found |-> TRUE, ret |-> data ]
              ELSE [store |-> store, mem |-> mem, found |-> FALSE, ret |-> None]
         ELSE [ store |-> store, mem |-> mem, found |-> sid \in DOMAIN mem,
                ret |-> Get(mem, sid) ]
    ELSE IF sid \in DOMAIN mem
         THEN LET data == [mem[sid] EXCEPT !.last_accessed = t]
              IN [ store |-> store, mem |-> Put(mem, sid, data),
                   found |-> TRUE, ret |-> data ]
         ELSE [store |-> store, mem |-> mem, found |-> FALSE, ret |-> None]

\* variant: only the memory map is looked at
delete_session_memory_only(client, up, store, mem, sid) ==
    [ store |-> store, mem |-> Drop(mem, sid),
      ret |-> sid \in DOMAIN store \/ sid \in DOMAIN mem ]

\* variant: every session goes with the one named
delete_session_all(client, up, store, mem, sid) ==
    IF client /\ up
    THEN [store |-> <<>>, mem |-> mem, ret |-> sid \in DOMAIN store]
    ELSE [store |-> store, mem |-> <<>>, ret |-> sid \in DOMAIN mem]

delete_session(client, up, store, mem, sid) ==
    IF client /\ up
    THEN [store |-> Drop(store, sid), mem |-> mem, ret |-> sid \in DOMAIN store]
    ELSE [store |-> store, mem |-> Drop(mem, sid), ret |-> sid \in DOMAIN mem]

\* variant: the record is rebuilt from user_data, owner included
update_session_rebinding(client, up, store, mem, sid, user_data, t) ==
    With(get_session(client, up, store, mem, sid, t), LAMBDA g :
    IF ~g.found
    THEN [store |-> g.store, mem |-> g.mem, ret |-> FALSE]
    ELSE LET data == [g.ret EXCEPT !.user_id = user_data.username,
                                   !.user_data = user_data, !.last_accessed = t] IN
         IF client /\ up
         THEN [store |-> Setex(g.store, sid, data, t), mem |-> g.mem, ret |-> TRUE]
         ELSE [store |-> g.store, mem |-> Put(g.mem, sid, data), ret |-> TRUE])

update_session(client, up, store, mem, sid, user_data, t) ==
    With(get_session(client, up, store, mem, sid, t), LAMBDA g :
    IF ~g.found
    THEN [store |-> g.store, mem |-> g.mem, ret |-> FALSE]
    ELSE LET data == [g.ret EXCEPT !.user_data = user_data, !.last_accessed = t] IN
         IF client /\ up
         THEN [store |-> Setex(g.store, sid, data, t), mem |-> g.mem, ret |-> TRUE]
         ELSE [store |-> g.store, mem |-> Put(g.mem, sid, data), ret |-> TRUE])

\* cleanup_expired_sessions: the new memory map
cleanup_expired_sessions(client, mem, t) ==
    IF client THEN mem
    ELSE LET expired == { s \in DOMAIN mem : t - mem[s].created_at > RefreshTtl }
         IN [s \in DOMAIN mem \ expired |-> mem[s]]

\* ------------------------------------------------------ outcome of a call
NoToken == [form |-> "none", payload |-> <<>>]

Blank ==
    [ op |-> "idle", ok |-> FALSE, err |-> "", ret |-> None,
      token |-> NoToken, kind |-> None, issued |-> {}, args |-> <<>>,
      ident |-> None, looked_up |-> FALSE, hashed |-> FALSE,
      prior |-> 0, before |-> 0, after |-> 0, cause |-> "", sid |-> None,
      payload |-> <<>>,
      gone |-> {}, previous |-> <<>>, response |-> [status |-> 0, body |-> ""],
      known |-> FALSE, deleted |-> FALSE, idle |-> 0,
      listed |-> {}, total |-> 0, required |-> {} ]

\* no call is in progress: the previous outcome has been delivered
Idle == result.op = "idle"

\* the tokens a client can present: issued ones, tampered copies, garbage
Tampered(t) == [t EXCEPT !.form = "badsig"]

Garbage == [form |-> "malformed", payload |-> <<>>]

Presentable == tokens \cup { Tampered(t) : t \in tokens } \cup {Garbage}

\* --------------------------------------------------- history (not program)
Entries(log, identifier) == IF identifier \in DOMAIN log THEN log[identifier] ELSE <<>>

\* number of failures logged for identifier inside the window ending at t
FailedInWindow(log, identifier, t) ==
    Cardinality({ i \in DOMAIN Entries(log, identifier) :
                    /\ Entries(log, identifier)[i][2]
                    /\ t - Entries(log, identifier)[i][1] < window_minutes })

RECURSIVE TotalLen(_, _)
TotalLen(log, ids) ==
    IF ids = {} THEN 0
    ELSE LET k == CHOOSE x \in ids : TRUE
         IN Len(log[k]) + TotalLen(log, ids \ {k})

Logged(log, identifier, t, failed) ==
    Put(log, identifier, Append(Entries(log, identifier), <<t, failed>>))

\* ------------------------------------------------------------- AuthService
TooMany == "AuthenticationError(Too many failed attempts. Please try again later.)"
InvalidCredentials == "AuthenticationError(Invalid credentials)"
Deactivated == "AuthenticationError(Account is deactivated)"

UnknownName == "AuthenticationError(Unknown user)"

\* variant: an unknown name is answered with an error of its own and is not
\* counted
authenticate_user_revealing(tbl, att, username, password, client_ip, t) ==
    LET identifier == IF client_ip # None THEN client_ip ELSE username
        att1 == CleanOld(att, identifier, t)
        user == get_by_username_or_email(tbl, username)
        base == [ identifier |-> identifier, user |-> None, att |-> att1,
                  looked_up |-> TRUE, hashed |-> user # None ]
    IN IF is_rate_limited(att, identifier, t)
       THEN [base EXCEPT !.looked_up = FALSE, !.hashed = FALSE] @@
            [ok |-> FALSE, err |-> TooMany]
       ELSE IF user = None
       THEN base @@ [ok |-> FALSE, err |-> UnknownName]
       ELSE IF ~verify_password(password, tbl[user].password_hash)
       THEN [base EXCEPT !.att = record_attempt(att1, identifier, TRUE, t)] @@
            [ok |-> FALSE, err |-> InvalidCredentials]
       ELSE [base EXCEPT !.att = record_attempt(att1, identifier, FALSE, t),
                         !.user = user] @@
            [ok |-> TRUE, err |-> ""]

\* authenticate_user: the error raised or the user returned, the new
\* _attempts, and whether the lookup and the hash comparison were reached
authenticate_user(tbl, att, username, password, client_ip, t) ==
    LET identifier == IF client_ip # None THEN client_ip ELSE username
        att1 == CleanOld(att, identifier, t)
        user == get_by_username_or_email(tbl, username)
        base == [ identifier |-> identifier, user |-> None, att |-> att1,
                  looked_up |-> TRUE, hashed |-> user # None ]
    IN IF is_rate_limited(att, identifier, t)
       THEN [base EXCEPT !.looked_up = FALSE, !.hashed = FALSE] @@
            [ok |-> FALSE, err |-> TooMany]
       ELSE IF user = None \/ ~verify_password(password, tbl[user].password_hash)
       THEN [base EXCEPT !.att = record_attempt(att1, identifier, TRUE, t)] @@
            [ok |-> FALSE, err |-> InvalidCredentials]
       ELSE IF ~tbl[user].is_active
       THEN [base EXCEPT !.att = record_attempt(att1, identifier, TRUE, t)] @@
            [ok |-> FALSE, err |-> Deactivated]
       ELSE [base EXCEPT !.att = record_attempt(att1, identifier, FALSE, t),
                         !.user = user] @@
            [ok |-> TRUE, err |-> ""]

\* what a call of authenticate_user leaves in result and in the history
AuthResult(op, o, username, password, client_ip) ==
    [ op |-> op, ok |-> o.ok, err |-> o.err, ret |-> o.user,
      args |-> <<username, password, client_ip>>, ident |-> o.identifier,
      looked_up |-> o.looked_up, hashed |-> o.hashed,
      prior |-> FailedInWindow(auth_log, o.identifier, now),
      before |-> SumCounts(SelectSeq(Entries(attempts, o.identifier),
                                     LAMBDA e : InWindow(e, now))),
      after |-> SumCounts(SelectSeq(Entries(o.att, o.identifier),
                                    LAMBDA e : InWindow(e, now))) ] @@ Blank

AuthLogged(o) ==
    IF o.err = TooMany THEN auth_log
    ELSE Logged(auth_log, o.identifier, now, ~o.ok)

Authenticate(username, password, client_ip) ==
    LET o == authenticate_user(users, attempts, username, password, client_ip, now)
    IN /\ Idle
       /\ o.err # TooMany => TotalLen(auth_log, DOMAIN auth_log) < MaxCalls
       /\ attempts' = o.att
       /\ auth_log' = AuthLogged(o)
       /\ result' = AuthResult("authenticate", o, username, password, client_ip)
       /\ UNCHANGED << now, tz, users, redis_client, redis_up, redis_store,
                       memory_sessions, tokens, next_sid, next_jti, minted,
                       revoked, seen >>
       /\ UNCHANGED << mailvars, extvars >>

\* the clock advances by d minutes; Redis drops the keys whose TTL has run out
Tick(d, cap) ==
    /\ Idle
    /\ now + d <= cap
    /\ now' = now + d
    /\ redis_store' = [ s \in { k \in DOMAIN redis_store :
                                    redis_store[k].expires > now + d } |->
                          redis_store[s] ]
    /\ UNCHANGED << tz, users, redis_client, redis_up, memory_sessions,
                    attempts, tokens, next_sid, next_jti, result, minted,
                    revoked, auth_log, seen >>
    /\ UNCHANGED << mailvars, extvars >>

\* the caller takes the outcome of the call; the next call can start
Return ==
    /\ ~Idle
    /\ result' = Blank
    /\ UNCHANGED << now, tz, users, redis_client, redis_up, redis_store,
                    memory_sessions, attempts, tokens, next_sid, next_jti,
                    minted, revoked, auth_log, seen >>
    /\ UNCHANGED << mailvars, extvars >>

Init ==
    /\ now = 0
    /\ tz \in TzOffsets
    /\ users = SeedUsers
    /\ redis_client \in BOOLEAN
    /\ redis_up = TRUE
    /\ redis_store = <<>>
    /\ memory_sessions = <<>>
    /\ attempts = <<>>
    /\ tokens = {}
    /\ next_sid = 0
    /\ next_jti = 0
    /\ result = Blank
    /\ minted = <<>>
    /\ revoked = {}
    /\ auth_log = <<>>
    /\ verification_tokens = <<>>
    /\ reset_tokens = <<>>
    /\ next_tok = 0
    /\ pending = {}
    /\ token_log = {}
    /\ roles = SeedRoles
    /\ permissions = SeedPermissions
    /\ session_log = <<>>
    /\ seen = {}

\* -------------------------------------------- AuthService: token lifecycle
InvalidPayload == "AuthenticationError(Invalid token payload)"
SessionExpired == "AuthenticationError(Session expired)"
UserNotFoundOrInactive == "AuthenticationError(User not found or inactive)"
UserNotFound == "AuthenticationError(User not found)"

\* the session snapshot login stores
user_data(tbl, user, client_ip, t) ==
    [ username |-> tbl[user].username, email |-> tbl[user].email,
      roles |-> tbl[user].roles, login_time |-> t, client_ip |-> client_ip ]

\* the claims login hands to the codec
token_data(tbl, user, session_id) ==
    [ sub |-> user, username |-> tbl[user].username,
      email |-> tbl[user].email, roles |-> tbl[user].roles,
      session_id |-> session_id ]

\* variant: the session id is left out of the claims
new_token_data_without_session(tbl, user, session_id) ==
    [ sub |-> user, username |-> tbl[user].username,
      email |-> tbl[user].email, roles |-> tbl[user].roles ]

\* the claims refresh_token hands to the codec
new_token_data(tbl, user, session_id) ==
    [ sub |-> user, username |-> tbl[user].username,
      email |-> tbl[user].email, roles |-> tbl[user].roles,
      session_id |-> session_id ]

\* variant: the session of a missing user is left in place
cleanup_orphan_skipped(client, up, store, mem, session_id) ==
    [store |-> store, mem |-> mem, ret |-> FALSE]

\* "if session_id: await session_manager.delete_session(session_id)"
cleanup_orphan(client, up, store, mem, session_id) ==
    IF session_id # None
    THEN delete_session(client, up, store, mem, session_id)
    ELSE [store |-> store, mem |-> mem, ret |-> FALSE]

\* the part refresh_token and get_current_user share: verification, the sub
\* claim, the session check.  kind is the token type expected.
CheckToken(client, up, store, mem, token, kind, t, off) ==
    With(verify_token(token, kind, t, off), LAMBDA v :
    With(Get(v.payload, "sub"), LAMBDA user_id :
    With(Get(v.payload, "session_id"), LAMBDA session_id :
    With(IF session_id # None
         THEN get_session(client, up, store, mem, session_id, t)
         ELSE [store |-> store, mem |-> mem, found |-> TRUE, ret |-> None],
         LAMBDA g :
    With([ ok |-> FALSE, err |-> "", cause |-> v.cause, store |-> store,
           mem |-> mem, user_id |-> None, session_id |-> None ], LAMBDA base :
    IF ~v.ok THEN [base EXCEPT !.err = v.err]
    ELSE IF user_id = None THEN [base EXCEPT !.err = InvalidPayload]
    ELSE IF ~g.found
         THEN [base EXCEPT !.err = SessionExpired, !.session_id = session_id,
                           !.store = g.store, !.mem = g.mem]
    ELSE [base EXCEPT !.ok = TRUE, !.user_id = user_id,
                      !.session_id = session_id,
                      !.store = g.store, !.mem = g.mem])))))

\* variant: a refresh token is accepted only while its jti is the last one issued
refresh_token_once(tbl, client, up, store, mem, token, t, off, jti) ==
    With(CheckToken(client, up, store, mem, token, "refresh", t, off), LAMBDA c :
    With(get_by_id(tbl, c.user_id), LAMBDA user :
    IF ~c.ok THEN c @@ [issued |-> {}, orphan |-> FALSE]
    ELSE IF Get(token.payload, "jti") # jti
    THEN [c EXCEPT !.ok = FALSE, !.err = HTTP_401] @@ [issued |-> {}, orphan |-> FALSE]
    ELSE IF user = None \/ ~tbl[user].is_active
    THEN With(cleanup_orphan(client, up, c.store, c.mem, c.session_id), LAMBDA d :
         [c EXCEPT !.ok = FALSE, !.err = UserNotFoundOrInactive,
                   !.store = d.store, !.mem = d.mem]
         @@ [issued |-> {}, orphan |-> d.ret])
    ELSE With(new_token_data(tbl, user, c.session_id), LAMBDA data :
         c @@ [ issued |-> { create_access_token(data, t, jti + 1),
                             create_refresh_token(data, t, jti + 2) },
                orphan |-> FALSE ])))

\* AuthService.refresh_token
refresh_token(tbl, client, up, store, mem, token, t, off, jti) ==
    With(CheckToken(client, up, store, mem, token, "refresh", t, off), LAMBDA c :
    With(get_by_id(tbl, c.user_id), LAMBDA user :
    IF ~c.ok THEN c @@ [issued |-> {}, orphan |-> FALSE]
    ELSE IF user = None \/ ~tbl[user].is_active
    THEN With(cleanup_orphan(client, up, c.store, c.mem, c.session_id), LAMBDA d :
         [c EXCEPT !.ok = FALSE, !.err = UserNotFoundOrInactive,
                   !.store = d.store, !.mem = d.mem]
         @@ [issued |-> {}, orphan |-> d.ret])
    ELSE With(new_token_data(tbl, user, c.session_id), LAMBDA data :
         c @@ [ issued |-> { create_access_token(data, t, jti + 1),
                             create_refresh_token(data, t, jti + 2) },
                orphan |-> FALSE ])))

get_current_user(tbl, client, up, store, mem, token, t, off) ==
    With(CheckToken(client, up, store, mem, token, "access", t, off), LAMBDA c :
    With(get_by_id(tbl, c.user_id), LAMBDA user :
    IF ~c.ok THEN c @@ [user |-> None, orphan |-> FALSE]
    ELSE IF user = None
    THEN With(cleanup_orphan(client, up, c.store, c.mem, c.session_id), LAMBDA d :
         [c EXCEPT !.ok = FALSE, !.err = UserNotFound,
                   !.store = d.store, !.mem = d.mem]
         @@ [user |-> None, orphan |-> d.ret])
    ELSE c @@ [user |-> user, orphan |-> FALSE]))

\* variant: a token that fails verification is answered with True
logout_forgiving(client, up, store, mem, token, t, off) ==
    With(verify_token(token, "access", t, off), LAMBDA v :
    With(Get(v.payload, "session_id"), LAMBDA session_id :
    IF ~v.ok
    THEN [ ret |-> TRUE, cause |-> v.cause, err |-> v.err, store |-> store,
           mem |-> mem, session_id |-> None, deleted |-> FALSE ]
    ELSE IF session_id # None
    THEN With(delete_session(client, up, store, mem, session_id), LAMBDA d :
         [ ret |-> d.ret, cause |-> "", err |-> "", store |-> d.store,
           mem |-> d.mem, session_id |-> session_id, deleted |-> d.ret ])
    ELSE [ ret |-> TRUE, cause |-> "", err |-> "", store |-> store,
           mem |-> mem, session_id |-> None, deleted |-> FALSE ]))

\* logout: every exception, verification included, ends in "return False"
logout(client, up, store, mem, token, t, off) ==
    With(verify_token(token, "access", t, off), LAMBDA v :
    With(Get(v.payload, "session_id"), LAMBDA session_id :
    IF ~v.ok
    THEN [ ret |-> FALSE, cause |-> v.cause, err |-> v.err, store |-> store,
           mem |-> mem, session_id |-> None, deleted |-> FALSE ]
    ELSE IF session_id # None
    THEN With(delete_session(client, up, store, mem, session_id), LAMBDA d :
         [ ret |-> d.ret, cause |-> "", err |-> "", store |-> d.store,
           mem |-> d.mem, session_id |-> session_id, deleted |-> d.ret ])
    ELSE [ ret |-> TRUE, cause |-> "", err |-> "", store |-> store,
           mem |-> mem, session_id |-> None, deleted |-> FALSE ]))

GoneBy(session_id) == { r \in {"logout", "orphan"} : <<session_id, r>> \in revoked }

Login(username, password, client_ip) ==
    LET o == authenticate_user(users, attempts, username, password, client_ip, now)
        sid == uuid4(next_sid + 1)
        c == create_session(redis_client, redis_up, redis_store, memory_sessions,
                            sid, o.user, user_data(users, o.user, client_ip, now), now)
        data == token_data(users, o.user, c.ret)
        pair == { create_access_token(data, now, next_jti + 1),
                  create_refresh_token(data, now, next_jti + 2) }
    IN /\ Idle
       /\ o.err # TooMany => TotalLen(auth_log, DOMAIN auth_log) < MaxLogins
       /\ o.ok => next_sid < MaxSessions /\ next_jti + 2 <= MaxTokens
       /\ attempts' = o.att
       /\ auth_log' = AuthLogged(o)
       /\ IF o.ok
          THEN /\ redis_store' = c.store
               /\ memory_sessions' = c.mem
               /\ tokens' = tokens \cup pair
               /\ next_sid' = next_sid + 1
               /\ next_jti' = next_jti + 2
               /\ result' = [ issued |-> pair, sid |-> c.ret ] @@
                            AuthResult("login", o, username, password, client_ip)
          ELSE /\ result' = AuthResult("login", o, username, password, client_ip)
               /\ UNCHANGED << redis_store, memory_sessions, tokens, next_sid,
                               next_jti >>
       /\ UNCHANGED << now, tz, users, redis_client, redis_up, minted, revoked,
                       seen >>
       /\ UNCHANGED << mailvars, extvars >>

RefreshWithin(token, cap) ==
    \E r \in { refresh_token(users, redis_client, redis_up, redis_store,
                           memory_sessions, token, now, tz, next_jti) } :
       /\ Idle
       /\ r.ok => next_jti + 2 <= cap
       /\ redis_store' = r.store
       /\ memory_sessions' = r.mem
       /\ tokens' = tokens \cup r.issued
       /\ next_jti' = IF r.ok THEN next_jti + 2 ELSE next_jti
       /\ revoked' = IF r.orphan THEN revoked \cup {<<r.session_id, "orphan">>}
                                 ELSE revoked
       /\ result' = [ op |-> "refresh", ok |-> r.ok, err |-> r.err,
                      token |-> token, kind |-> "refresh", issued |-> r.issued,
                      cause |-> r.cause,
                      sid |-> Get(token.payload, "session_id"),
                      gone |-> GoneBy(Get(token.payload, "session_id")) ] @@ Blank
       /\ UNCHANGED << now, tz, users, redis_client, redis_up, attempts,
                       next_sid, minted, auth_log, seen >>
       /\ UNCHANGED << mailvars, extvars >>

Refresh(token) == RefreshWithin(token, MaxTokens)

GetCurrentUser(token) ==
    \E r \in { get_current_user(users, redis_client, redis_up, redis_store,
                              memory_sessions, token, now, tz) } :
       /\ Idle
       /\ redis_store' = r.store
       /\ memory_sessions' = r.mem
       /\ revoked' = IF r.orphan THEN revoked \cup {<<r.session_id, "orphan">>}
                                 ELSE revoked
       /\ result' = [ op |-> "get_current_user", ok |-> r.ok, err |-> r.err,
                      ret |-> r.user, token |-> token, kind |-> "access",
                      cause |-> r.cause,
                      sid |-> Get(token.payload, "session_id"),
                      gone |-> GoneBy(Get(token.payload, "session_id")) ] @@ Blank
       /\ UNCHANGED << now, tz, users, redis_client, redis_up, attempts, tokens,
                       next_sid, next_jti, minted, auth_log, seen >>
       /\ UNCHANGED << mailvars, extvars >>

Logout(token) ==
    \E r \in { logout(redis_client, redis_up, redis_store, memory_sessions,
                    token, now, tz) } :
       /\ Idle
       /\ redis_store' = r.store
       /\ memory_sessions' = r.mem
       /\ revoked' = IF r.deleted THEN revoked \cup {<<r.session_id, "logout">>}
                                  ELSE revoked
       /\ result' = [ op |-> "logout", ok |-> TRUE, ret |-> r.ret,
                      token |-> token, kind |-> "access", cause |-> r.cause,
                      sid |-> Get(token.payload, "session_id") ] @@ Blank
       /\ UNCHANGED << now, tz, users, redis_client, redis_up, attempts, tokens,
                       next_sid, next_jti, minted, auth_log, seen >>
       /\ UNCHANGED << mailvars, extvars >>

\* UserService.delete_user
DeleteUser(user_id) ==
    LET r == repo_delete(users, user_id)
    IN /\ Idle
       /\ users' = r.tbl
       /\ result' = [ op |-> "delete_user", ok |-> TRUE, ret |-> r.ret,
                      args |-> <<user_id>> ] @@ Blank
       /\ UNCHANGED << now, tz, redis_client, redis_up, redis_store,
                       memory_sessions, attempts, tokens, next_sid, next_jti,
                       minted, revoked, auth_log, seen >>
       /\ UNCHANGED << mailvars, extvars >>

\* SessionManager.update_session with a snapshot of some user as user_data
UpdateSession(sid, user) ==
    LET snapshot == [ username |-> users[user].username,
                      email |-> users[user].email, roles |-> users[user].roles ]
        r == update_session(redis_client, redis_up, redis_store, memory_sessions,
                            sid, snapshot, now)
    IN /\ Idle
       /\ redis_store' = r.store
       /\ memory_sessions' = r.mem
       /\ result' = [ op |-> "update_session", ok |-> TRUE, ret |-> r.ret,
                      sid |-> sid ] @@ Blank
       /\ UNCHANGED << now, tz, users, redis_client, redis_up, attempts, tokens,
                       next_sid, next_jti, minted, revoked, auth_log, seen >>
       /\ UNCHANGED << mailvars, extvars >>

CleanupExpiredSessions ==
    /\ Idle
    /\ memory_sessions' = cleanup_expired_sessions(redis_client, memory_sessions, now)
    /\ result' = [ op |-> "cleanup_expired_sessions", ok |-> TRUE ] @@ Blank
    /\ UNCHANGED << now, tz, users, redis_client, redis_up, redis_store,
                    attempts, tokens, next_sid, next_jti, minted, revoked,
                    auth_log, seen >>
    /\ UNCHANGED << mailvars, extvars >>

\* the Redis server stops answering, or answers again
RedisDown ==
    /\ Idle
    /\ redis_client /\ redis_up
    /\ redis_up' = FALSE
    /\ UNCHANGED << now, tz, users, redis_client, redis_store, memory_sessions,
                    attempts, tokens, next_sid, next_jti, result, minted,
                    revoked, auth_log, seen >>
    /\ UNCHANGED << mailvars, extvars >>

RedisUp ==
    /\ Idle
    /\ redis_client /\ ~redis_up
    /\ redis_up' = TRUE
    /\ UNCHANGED << now, tz, users, redis_client, redis_store, memory_sessions,
                    attempts, tokens, next_sid, next_jti, result, minted,
                    revoked, auth_log, seen >>
    /\ UNCHANGED << mailvars, extvars >>

\* the logins clients attempt: by username, and by email with the client
\* address known (they fail once the account is deleted)
Logins ==
    { <<"alice", "Secret123!", None>>,
      <<"bob@example.com", "Secret123!", "10.0.0.1">> }

IssuedSessions == { uuid4(n) : n \in 1..next_sid }

Next ==
    \/ \E l \in Logins : Login(l[1], l[2], l[3])
    \/ \E token \in tokens \cup {Garbage} : Refresh(token)
    \/ \E token \in tokens \cup {Garbage} : GetCurrentUser(token)
    \/ \E token \in tokens \cup {Garbage} : Logout(token)
    \/ \E user_id \in UserIds : DeleteUser(user_id)
    \/ \E sid \in IssuedSessions, user \in UserIds : UpdateSession(sid, user)
    \/ CleanupExpiredSessions
    \/ RedisDown
    \/ RedisUp
    \/ Tick(LongStep, MaxTimeLife)
    \/ Return

\* east of UTC the second expiry check of verify_token rejects nothing that
\* jose has not rejected already, so the service is followed at and west of UTC
InitLife == Init /\ tz <= 0

Spec == InitLife /\ [][Next]_vars

\* ------------------------------------------------- the codec on its own
\* jwt_manager.create_access_token / create_refresh_token called directly
CreateToken(kind, data) ==
    LET token == IF kind = "access"
                 THEN create_access_token(data, now, next_jti + 1)
                 ELSE create_refresh_token(data, now, next_jti + 1)
    IN /\ Idle
       /\ next_jti < MaxMinted
       /\ next_jti' = next_jti + 1
       /\ tokens' = tokens \cup {token}
       /\ minted' = Put(minted, next_jti + 1,
                        [claims |-> data, at |-> now, kind |-> kind])
       /\ result' = [ op |-> "create_token", ok |-> TRUE, kind |-> kind,
                      issued |-> {token} ] @@ Blank
       /\ UNCHANGED << now, tz, users, redis_client, redis_up, redis_store,
                       memory_sessions, attempts, next_sid, revoked, auth_log,
                       seen >>
       /\ UNCHANGED << mailvars, extvars >>

CreateAccessToken(data) == CreateToken("access", data)

CreateRefreshToken(data) == CreateToken("refresh", data)

\* jwt_manager.verify_token called directly
VerifyToken(token, token_type) ==
    LET v == verify_token(token, token_type, now, tz)
    IN /\ Idle
       /\ seen' = IF v.ok THEN seen ELSE seen \cup {<<v.cause, v.err>>}
       /\ result' = [ op |-> "verify_token", ok |-> v.ok, err |-> v.err,
                      token |-> token, kind |-> token_type, cause |-> v.cause,
                      payload |-> v.payload ] @@ Blank
       /\ UNCHANGED << now, tz, users, redis_client, redis_up, redis_store,
                       memory_sessions, attempts, tokens, next_sid, next_jti,
                       minted, revoked, auth_log >>
       /\ UNCHANGED << mailvars, extvars >>

InitCodec == Init /\ redis_client = FALSE

NextCodec ==
    \/ \E data \in ClaimsMaps : CreateAccessToken(data)
    \/ \E data \in ClaimsMaps : CreateRefreshToken(data)
    \/ \E token \in Presentable, token_type \in {"access", "refresh"} :
          VerifyToken(token, token_type)
    \/ \E d \in CodecSteps : Tick(d, MaxTimeCodec)
    \/ Return

SpecCodec == InitCodec /\ [][NextCodec]_vars

\* ---------------------------------------- authentication and rate limiting
InitRate == Init /\ tz = 0 /\ redis_client = FALSE

NextRate ==
    \/ \E username \in {"alice"}, password \in Passwords,
          client_ip \in ClientIps : Authenticate(username, password, client_ip)
    \/ \E client_ip \in ClientIps \ {None} :
          Authenticate("mallory", "Secret123!", client_ip)
    \/ \E d \in RateSteps : Tick(d, MaxTimeRate)
    \/ Return

SpecRate == InitRate /\ [][NextRate]_vars

\* ------------------------- EmailVerificationService / PasswordResetService
\* timedelta(hours=24) and timedelta(hours=1), in minutes
VerificationTtl == verification_hours * 60
ResetTtl == reset_hours * 60

\* variant: the generator hands out the same value twice
token_urlsafe_repeating(n) == "t1"

\* secrets.token_urlsafe(32): the n-th value drawn
token_urlsafe(n) == "t" \o ToString(n)

TokenData(user_id, email, expiry) ==
    [user_id |-> user_id, email |-> email, expiry |-> expiry, used |-> FALSE]

generate_verification_token(reg, token, user_id, email, t) ==
    Put(reg, token, TokenData(user_id, email, t + VerificationTtl))

generate_reset_token(reg, token, user_id, email, t) ==
    Put(reg, token, TokenData(user_id, email, t + ResetTtl))

\* the three checks both registries make; found: token data is returned,
\* not None.  cause is what the warning logged says.
LookUp(reg, token, t) ==
    IF token \notin DOMAIN reg
    THEN [found |-> FALSE, cause |-> "missing"]
    ELSE IF reg[token].used THEN [found |-> FALSE, cause |-> "used"]
    ELSE IF t > reg[token].expiry THEN [found |-> FALSE, cause |-> "expired"]
    ELSE [found |-> TRUE, cause |-> ""]

\* EmailVerificationService.verify_token
verify_verification_token(reg, token, t) == LookUp(reg, token, t)

\* PasswordResetService.verify_reset_token
verify_reset_token(reg, token, t) == LookUp(reg, token, t)

mark_token_used(reg, token) ==
    IF token \in DOMAIN reg THEN [reg EXCEPT ![token].used = TRUE] ELSE reg

\* variant: the flag is left as it was
mark_reset_token_used_skipped(reg, token) == reg

mark_reset_token_used(reg, token) ==
    IF token \in DOMAIN reg THEN [reg EXCEPT ![token].used = TRUE] ELSE reg

\* the tokens of user_id that are not used yet
Unused(reg, user_id) ==
    { k \in DOMAIN reg : reg[k].user_id = user_id /\ ~reg[k].used }

\* variant: the old tokens are left alone
resend_verification_email_keeping(reg, token, user_id, email, t) ==
    generate_verification_token(reg, token, user_id, email, t)

\* EmailVerificationService.resend_verification_email
resend_verification_email(reg, token, user_id, email, t) ==
    generate_verification_token(
        [ k \in DOMAIN reg |->
            IF k \in Unused(reg, user_id) THEN [reg[k] EXCEPT !.used = TRUE]
                                          ELSE reg[k] ],
        token, user_id, email, t)

\* a token that is neither used nor past its expiry
Live(reg, token, t) == LookUp(reg, token, t).found

\* -------------------------------------------------------------- UserService
PasswordsDoNotMatch == "ValidationError(Passwords do not match)"
Conflict == "ConflictError(Username or email already exists)"
MultipleResultsFound ==
    "MultipleResultsFound(Multiple rows were found when one or none was required)"
InvalidVerification == "ValidationError(Invalid or expired verification token)"
InvalidReset == "ValidationError(Invalid or expired reset token)"
AlreadyVerified == "ValidationError(User email is already verified)"
NotFound == "NotFoundError(User with ID not found)"

\* the bodies the auth routes answer with
Response(status, body) == [status |-> status, body |-> body]
ResendGeneric ==
    Response(200, "If the email exists, a verification link has been sent")
ResendSent == Response(200, "Verification email sent")
ResetGeneric ==
    Response(200, "If the email exists, a password reset link has been sent")
BadRequest(detail) == Response(400, detail)

\* what clients submit
Registrations ==
    { [ username |-> "carol", email |-> "carol@example.com",
        password |-> "Secret123!", confirm_password |-> c ] :
      c \in {"Secret123!", "wrong"} }
\* resend-verification is asked for a verified account, the registered one
\* and no account; a password reset for a seeded account and for no account
ResendEmails == {"alice@example.com", "carol@example.com", "nobody@example.com"}
ResetEmails == {"alice@example.com", "nobody@example.com"}
NewPasswords == {"NewPass1!", "Other2!"}
BogusToken == "invalid-token"

\* the events the history holds for a token
LogOf(token) == { e[1] : e \in { x \in token_log : x[2] = token } }

\* a call suspended at its persistence calls
Suspended(op, token, user, email, password, gone) ==
    [ op |-> op, token |-> token, user |-> user, email |-> email,
      password |-> password, gone |-> gone ]

\* UserRepository.create: the id of the new row
NewUserId(tbl) == "u" \o ToString(Cardinality(DOMAIN tbl) + 1)

\* UserService.register_user
Register(data) ==
    \E token \in {token_urlsafe(next_tok + 1)}, user_id \in {NewUserId(users)} :
    /\ Idle
    /\ IF data.password # data.confirm_password
       THEN /\ result' = [ op |-> "register", err |-> PasswordsDoNotMatch,
                           args |-> <<data.email>> ] @@ Blank
            /\ UNCHANGED << users, verification_tokens, next_tok >>
       ELSE IF \E u \in DOMAIN users : \/ users[u].username = data.username
                                       \/ users[u].email = data.email
       THEN /\ result' =
                  [ op |-> "register",
                    err |-> IF Cardinality({ u \in DOMAIN users :
                                               \/ users[u].username = data.username
                                               \/ users[u].email = data.email }) > 1
                            THEN MultipleResultsFound ELSE Conflict,
                    args |-> <<data.email>> ] @@ Blank
            /\ UNCHANGED << users, verification_tokens, next_tok >>
       ELSE /\ next_tok < MaxMailTokens
            /\ users' = Put(users, user_id,
                            Row(data.username, data.email, data.password, {}))
            /\ verification_tokens' =
                  generate_verification_token(verification_tokens, token,
                                              user_id, data.email, now)
            /\ next_tok' = next_tok + 1
            /\ result' = [ op |-> "register", ok |-> TRUE, ret |-> user_id,
                           issued |-> {token}, args |-> <<data.email>> ] @@ Blank
    /\ UNCHANGED << extvars, now, tz, redis_client, redis_up, redis_store,
                    memory_sessions, attempts, tokens, next_sid, next_jti,
                    minted, revoked, auth_log, seen, reset_tokens, pending,
                    token_log >>

\* UserService.verify_email up to "await self.db.commit()": the token check
\* and the user row as get_by_id reads it
VerifyEmailBegin(token) ==
    \E v \in {verify_verification_token(verification_tokens, token, now)} :
    \E user \in { IF v.found
                  THEN get_by_id(users, verification_tokens[token].user_id)
                  ELSE None } :
    \E base \in { [ op |-> "verify_email", args |-> <<token>>,
                    cause |-> v.cause, gone |-> LogOf(token) ] @@ Blank } :
    /\ Idle
    /\ IF ~v.found
       THEN /\ result' = [base EXCEPT !.err = InvalidVerification]
            /\ UNCHANGED << pending, token_log >>
       ELSE IF user = None
       THEN /\ result' = [base EXCEPT !.err = NotFound]
            /\ UNCHANGED << pending, token_log >>
       ELSE IF users[user].is_verified
       THEN /\ result' = [base EXCEPT !.ok = TRUE, !.ret = user]
            /\ token_log' = token_log \cup {<<"verified", token, "">>}
            /\ UNCHANGED pending
       ELSE /\ Cardinality(pending) < MaxPending
            /\ pending' = pending \cup
                  {Suspended("verify_email", token, user, "", "", LogOf(token))}
            /\ UNCHANGED << result, token_log >>
    /\ UNCHANGED << extvars, now, tz, users, redis_client, redis_up, redis_store,
                    memory_sessions, attempts, tokens, next_sid, next_jti,
                    minted, revoked, auth_log, seen, verification_tokens,
                    reset_tokens, next_tok >>

\* ... and from the commit on: is_verified is stored, the token marked used
VerifyEmailFinish(p) ==
    /\ Idle
    /\ p.op = "verify_email"
    /\ users' = [users EXCEPT ![p.user].is_verified = TRUE]
    /\ verification_tokens' = mark_token_used(verification_tokens, p.token)
    /\ pending' = pending \ {p}
    /\ token_log' = token_log \cup {<<"verified", p.token, "">>}
    /\ result' = [ op |-> "verify_email", ok |-> TRUE, ret |-> p.user,
                   args |-> <<p.token>>, gone |-> p.gone ] @@ Blank
    /\ UNCHANGED << extvars, now, tz, redis_client, redis_up, redis_store,
                    memory_sessions, attempts, tokens, next_sid, next_jti,
                    minted, revoked, auth_log, seen, reset_tokens, next_tok >>

\* POST /auth/resend-verification up to the token registry: the route's
\* get_by_email, then UserService.resend_verification_email's get_by_id
ResendVerificationBegin(email) ==
    \E user \in {get_by_email(users, email)} :
    \E base \in { [ op |-> "resend_verification", args |-> <<email>> ]
                  @@ Blank } :
    /\ Idle
    /\ IF user = None
       THEN /\ result' = [base EXCEPT !.ok = TRUE, !.response = ResendGeneric]
            /\ UNCHANGED pending
       ELSE IF users[user].is_verified
       THEN /\ result' = [base EXCEPT !.err = AlreadyVerified,
                                      !.response = BadRequest(AlreadyVerified)]
            /\ UNCHANGED pending
       ELSE /\ Cardinality(pending) < MaxPending
            /\ pending' = pending \cup
                  {Suspended("resend_verification", "", user, email, "", {})}
            /\ UNCHANGED result
    /\ UNCHANGED << extvars, now, tz, users, redis_client, redis_up, redis_store,
                    memory_sessions, attempts, tokens, next_sid, next_jti,
                    minted, revoked, auth_log, seen, verification_tokens,
                    reset_tokens, next_tok, token_log >>

\* ... and EmailVerificationService.resend_verification_email, then the answer
ResendVerificationFinish(p) ==
    \E token \in {token_urlsafe(next_tok + 1)} :
    /\ Idle
    /\ p.op = "resend_verification"
    /\ next_tok < MaxMailTokens
    /\ verification_tokens' =
          resend_verification_email(verification_tokens, token, p.user,
                                    p.email, now)
    /\ next_tok' = next_tok + 1
    /\ pending' = pending \ {p}
    /\ token_log' = token_log \cup
          { <<"superseded", k, "">> : k \in Unused(verification_tokens, p.user) }
    /\ result' = [ op |-> "resend_verification", ok |-> TRUE, ret |-> p.user,
                   issued |-> {token}, args |-> <<p.email>>,
                   response |-> ResendSent ] @@ Blank
    /\ UNCHANGED << extvars, now, tz, users, redis_client, redis_up, redis_store,
                    memory_sessions, attempts, tokens, next_sid, next_jti,
                    minted, revoked, auth_log, seen, reset_tokens >>

\* variant: an unknown email is answered with false
request_password_reset_telling(tbl, email) ==
    [user |-> get_by_email(tbl, email), ret |-> get_by_email(tbl, email) # None]

\* UserService.request_password_reset: the user a token is generated for
\* (None: no token) and the value returned
request_password_reset(tbl, email) ==
    [user |-> get_by_email(tbl, email), ret |-> TRUE]

\* POST /auth/request-password-reset
RequestPasswordReset(email) ==
    \E r \in {request_password_reset(users, email)} :
    \E token \in {token_urlsafe(next_tok + 1)} :
    /\ Idle
    /\ IF r.user = None
       THEN UNCHANGED << reset_tokens, next_tok >>
       ELSE /\ next_tok < MaxMailTokens
            /\ reset_tokens' = generate_reset_token(reset_tokens, token, r.user,
                                                    users[r.user].email, now)
            /\ next_tok' = next_tok + 1
    /\ result' = [ op |-> "request_password_reset", ok |-> TRUE, ret |-> r.ret,
                   args |-> <<email>>,
                   issued |-> DOMAIN reset_tokens' \ DOMAIN reset_tokens,
                   response |-> ResetGeneric ] @@ Blank
    /\ UNCHANGED << extvars, now, tz, users, redis_client, redis_up, redis_store,
                    memory_sessions, attempts, tokens, next_sid, next_jti,
                    minted, revoked, auth_log, seen, verification_tokens,
                    pending, token_log >>

\* UserService.reset_password up to "await self.user_repo.update_password"
ResetPasswordBegin(token, new_password) ==
    \E v \in {verify_reset_token(reset_tokens, token, now)} :
    /\ Idle
    /\ IF ~v.found
       THEN /\ result' = [ op |-> "reset_password", err |-> InvalidReset,
                           args |-> <<token, new_password>>, cause |-> v.cause,
                           gone |-> LogOf(token),
                           response |-> BadRequest(InvalidReset) ] @@ Blank
            /\ UNCHANGED << pending, token_log >>
       ELSE /\ Cardinality(pending) < MaxPending
            /\ pending' = pending \cup
                  { Suspended("reset_password", token,
                              reset_tokens[token].user_id, "", new_password,
                              LogOf(token)) }
            /\ UNCHANGED << result, token_log >>
    /\ UNCHANGED << extvars, now, tz, users, redis_client, redis_up, redis_store,
                    memory_sessions, attempts, tokens, next_sid, next_jti,
                    minted, revoked, auth_log, seen, verification_tokens,
                    reset_tokens, next_tok >>

\* UserRepository.update_password: the new table (found: the row exists)
update_password(tbl, user_id, password_hash) ==
    IF get_by_id(tbl, user_id) = None
    THEN [tbl |-> tbl, found |-> FALSE]
    ELSE [tbl |-> [tbl EXCEPT ![user_id].password_hash = password_hash],
          found |-> TRUE]

\* ... and from there on: the hash is stored, the token marked used
ResetPasswordFinish(p) ==
    \E u \in {update_password(users, p.user, hash_password(p.password))} :
    \E base \in { [ op |-> "reset_password", args |-> <<p.token, p.password>>,
                    gone |-> p.gone ] @@ Blank } :
    /\ Idle
    /\ p.op = "reset_password"
    /\ pending' = pending \ {p}
    /\ users' = u.tbl
    /\ IF u.found
       THEN /\ reset_tokens' = mark_reset_token_used(reset_tokens, p.token)
            /\ token_log' = token_log \cup {<<"reset", p.token, p.password>>}
            /\ result' = [base EXCEPT !.ok = TRUE, !.ret = p.user,
                                      !.previous = users[p.user].password_hash]
       ELSE /\ result' = [base EXCEPT !.err = NotFound]
            /\ UNCHANGED << reset_tokens, token_log >>
    /\ UNCHANGED << extvars, now, tz, redis_client, redis_up, redis_store,
                    memory_sessions, attempts, tokens, next_sid, next_jti,
                    minted, revoked, auth_log, seen, verification_tokens,
                    next_tok >>

InitMail == Init /\ tz = 0 /\ redis_client = FALSE

NextMail ==
    \/ \E data \in Registrations : Register(data)
    \/ \E token \in DOMAIN verification_tokens \cup {BogusToken} :
          VerifyEmailBegin(token)
    \/ \E p \in pending : VerifyEmailFinish(p)
    \/ \E email \in ResendEmails : ResendVerificationBegin(email)
    \/ \E p \in pending : ResendVerificationFinish(p)
    \/ \E email \in ResetEmails : RequestPasswordReset(email)
    \/ \E token \in DOMAIN reset_tokens \cup {BogusToken},
          new_password \in NewPasswords : ResetPasswordBegin(token, new_password)
    \/ \E p \in pending : ResetPasswordFinish(p)
    \/ \E user_id \in {get_by_email(users, e) : e \in ResetEmails} \ {None} :
          DeleteUser(user_id)
    \/ Tick(ResetTtl, MaxTimeShort)
    \/ Tick(VerificationTtl, MaxTimeMail)
    \/ Return

SpecMail == InitMail /\ [][NextMail]_vars

\* a registrant is deleted while the verification mail is on its way
RegisteredIds == { verification_tokens[k].user_id : k \in DOMAIN verification_tokens }

InitVanish == Init /\ tz = 0 /\ redis_client = FALSE

NextVanish ==
    \/ \E data \in Registrations : Register(data)
    \/ \E token \in DOMAIN verification_tokens \cup {BogusToken} :
          VerifyEmailBegin(token)
    \/ \E p \in pending : VerifyEmailFinish(p)
    \/ ResendVerificationBegin("carol@example.com")
    \/ \E p \in pending : ResendVerificationFinish(p)
    \/ \E user_id \in RegisteredIds \cup {"u2"} : DeleteUser(user_id)
    \/ Tick(VerificationTtl, MaxTimeMail)
    \/ Return

SpecVanish == InitVanish /\ [][NextVanish]_vars

\* ---------------------------------------- SessionManager, called directly
\* what the history holds for a session id before a call
LogEntry(sid) ==
    IF sid \in DOMAIN session_log
    THEN [ known |-> TRUE, deleted |-> session_log[sid].deleted,
           idle |-> now - session_log[sid].read ]
    ELSE [ known |-> FALSE, deleted |-> FALSE, idle |-> 0 ]

\* session_manager.create_session(user_id, user_data)
CreateSession(user_id) ==
    \E sid \in {uuid4(next_sid + 1)} :
    \E c \in { create_session(redis_client, redis_up, redis_store,
                              memory_sessions, sid, user_id,
                              user_data(users, user_id, None, now), now) } :
       /\ Idle
       /\ next_sid < MaxSessions
       /\ redis_store' = c.store
       /\ memory_sessions' = c.mem
       /\ next_sid' = next_sid + 1
       /\ session_log' = Put(session_log, sid,
                             [created |-> now, read |-> now, deleted |-> FALSE])
       /\ result' = [ op |-> "create_session", ok |-> TRUE, ret |-> c.ret,
                      sid |-> sid ] @@ Blank
       /\ UNCHANGED << now, tz, users, redis_client, redis_up, attempts, tokens,
                       next_jti, minted, revoked, auth_log, seen, roles,
                       permissions >>
       /\ UNCHANGED mailvars

\* session_manager.get_session(session_id)
GetSession(sid) ==
    \E g \in { get_session(redis_client, redis_up, redis_store,
                           memory_sessions, sid, now) } :
    \E e \in { LogEntry(sid) } :
       /\ Idle
       /\ redis_store' = g.store
       /\ memory_sessions' = g.mem
       /\ session_log' = IF g.found /\ e.known
                         THEN [session_log EXCEPT ![sid].read = now]
                         ELSE session_log
       /\ result' = [ op |-> "get_session", ok |-> g.found, sid |-> sid,
                      known |-> e.known, deleted |-> e.deleted,
                      idle |-> e.idle ] @@ Blank
       /\ UNCHANGED << now, tz, users, redis_client, redis_up, attempts, tokens,
                       next_sid, next_jti, minted, revoked, auth_log, seen,
                       roles, permissions >>
       /\ UNCHANGED mailvars

\* session_manager.delete_session(session_id)
DeleteSession(sid) ==
    \E d \in { delete_session(redis_client, redis_up, redis_store,
                              memory_sessions, sid) } :
    \E e \in { LogEntry(sid) } :
       /\ Idle
       /\ redis_store' = d.store
       /\ memory_sessions' = d.mem
       /\ session_log' = IF e.known
                         THEN [session_log EXCEPT ![sid].deleted = TRUE]
                         ELSE session_log
       /\ result' = [ op |-> "delete_session", ok |-> TRUE, ret |-> d.ret,
                      sid |-> sid, known |-> e.known, deleted |-> e.deleted,
                      idle |-> e.idle ] @@ Blank
       /\ UNCHANGED << now, tz, users, redis_client, redis_up, attempts, tokens,
                       next_sid, next_jti, minted, revoked, auth_log, seen,
                       roles, permissions >>
       /\ UNCHANGED mailvars

\* ids a caller may hold: the ones create_session returned and one it never did
SessionIds == IssuedSessions \cup {uuid4(0)}

\* each backend by itself: Redis answering throughout, or no Redis client
InitBackend == Init /\ tz = 0

NextBackend ==
    \/ CreateSession("u1")
    \/ \E sid \in SessionIds : GetSession(sid)
    \/ \E sid \in SessionIds : DeleteSession(sid)
    \/ CleanupExpiredSessions
    \/ Tick(SessionStep, MaxTimeSess)
    \/ Return

SpecBackend == InitBackend /\ [][NextBackend]_vars

\* a Redis client whose server stops answering and answers again between calls
InitOutage == Init /\ tz = 0 /\ redis_client = TRUE

NextOutage ==
    \/ CreateSession("u1")
    \/ \E sid \in SessionIds : GetSession(sid)
    \/ \E sid \in SessionIds : DeleteSession(sid)
    \/ RedisDown
    \/ RedisUp
    \/ Tick(SessionStep, MaxTimeSess)
    \/ Return

SpecOutage == InitOutage /\ [][NextOutage]_vars

\* ------------------------------------------- the user and role directory
IntegrityError == "IntegrityError(UNIQUE constraint failed)"
RoleConflict == "ConflictError(Role already exists)"
PermissionConflict == "ConflictError(Permission already exists)"
Forbidden == "HTTPException(403, Insufficient permissions)"
InactiveUser == "HTTPException(400, Inactive user)"

\* select(Role).where(Role.id.in_(role_ids)): the names of the roles found
RoleNames(rtbl, role_ids) == { rtbl[r].name : r \in role_ids \cap DOMAIN rtbl }

\* the unique indexes on users.username and users.email, checked at commit
UniqueViolation(tbl, user_id, row) ==
    \E other \in DOMAIN tbl \ {user_id} :
        tbl[other].username = row.username \/ tbl[other].email = row.email

\* UserRepository.create with the hash UserService.create_user computes.
\* existing.scalar_one_or_none() returns the one row selected or None and
\* raises MultipleResultsFound when the select returns two rows
repo_create(tbl, rtbl, data, user_id) ==
    With({ u \in DOMAIN tbl : \/ tbl[u].username = data.username
                              \/ tbl[u].email = data.email }, LAMBDA existing :
    IF Cardinality(existing) > 1
    THEN [tbl |-> tbl, ok |-> FALSE, err |-> MultipleResultsFound, ret |-> None]
    ELSE IF existing # {}
    THEN [tbl |-> tbl, ok |-> FALSE, err |-> Conflict, ret |-> None]
    ELSE [ tbl |-> Put(tbl, user_id,
                       Row(data.username, data.email,
                           data.password,
                           RoleNames(rtbl, data.role_ids))),
           ok |-> TRUE, err |-> "", ret |-> user_id ])

\* UserUpdate: given holds the fields the client set (exclude_unset);
\* role_ids_null: role_ids was set to null
UserUpdate(given, username, email, role_ids, role_ids_null) ==
    [ given |-> given, username |-> username, email |-> email,
      role_ids |-> role_ids, role_ids_null |-> role_ids_null ]

\* the row after the setattr loop of UserRepository.update
Updated(row, rtbl, data) ==
    [ row EXCEPT
        !.username = IF "username" \in data.given THEN data.username ELSE @,
        !.email = IF "email" \in data.given THEN data.email ELSE @,
        !.roles = IF "role_ids" \in data.given /\ ~data.role_ids_null
                  THEN RoleNames(rtbl, data.role_ids) ELSE @ ]

\* variant: the roles named are added to the ones the user has
repo_update_merging(tbl, rtbl, user_id, data) ==
    With(get_by_id(tbl, user_id), LAMBDA user :
    IF user = None
    THEN [tbl |-> tbl, ok |-> FALSE, err |-> NotFound, ret |-> None]
    ELSE With([Updated(tbl[user], rtbl, data) EXCEPT
                  !.roles = @ \cup tbl[user].roles], LAMBDA row :
         IF UniqueViolation(tbl, user, row)
         THEN [tbl |-> tbl, ok |-> FALSE, err |-> IntegrityError, ret |-> None]
         ELSE [ tbl |-> [tbl EXCEPT ![user] = row], ok |-> TRUE, err |-> "",
                ret |-> user ]))

\* UserRepository.update: commit raises when a unique index is violated
repo_update(tbl, rtbl, user_id, data) ==
    With(get_by_id(tbl, user_id), LAMBDA user :
    IF user = None
    THEN [tbl |-> tbl, ok |-> FALSE, err |-> NotFound, ret |-> None]
    ELSE With(Updated(tbl[user], rtbl, data), LAMBDA row :
         IF UniqueViolation(tbl, user, row)
         THEN [tbl |-> tbl, ok |-> FALSE, err |-> IntegrityError, ret |-> None]
         ELSE [ tbl |-> [tbl EXCEPT ![user] = row], ok |-> TRUE, err |-> "",
                ret |-> user ]))

\* UserService.get_user
get_user(tbl, user_id) ==
    With(get_by_id(tbl, user_id), LAMBDA user :
    IF user = None THEN [ok |-> FALSE, err |-> NotFound, ret |-> None]
    ELSE [ok |-> TRUE, err |-> "", ret |-> user])

\* variant: the rows are listed whatever is_active says
list_users_all(tbl) == DOMAIN tbl

\* UserRepository.list_users without a search term, one page holding all
list_users(tbl) == { u \in DOMAIN tbl : tbl[u].is_active }

\* UserRepository.count_users without a search term
count_users(tbl) == Cardinality({ u \in DOMAIN tbl : tbl[u].is_active })

\* RoleRepository.create
role_create(rtbl, ptbl, role_data, role_id) ==
    IF \E r \in DOMAIN rtbl : rtbl[r].name = role_data.name
    THEN [tbl |-> rtbl, ok |-> FALSE, err |-> RoleConflict, ret |-> None]
    ELSE [ tbl |-> Put(rtbl, role_id,
                       [ name |-> role_data.name,
                         permission_ids |->
                             role_data.permission_ids \cap DOMAIN ptbl,
                         is_active |-> TRUE ]),
           ok |-> TRUE, err |-> "", ret |-> role_id ]

\* PermissionRepository.create
permission_create(ptbl, permission_data, permission_id) ==
    IF \E q \in DOMAIN ptbl : ptbl[q].name = permission_data.name
    THEN [tbl |-> ptbl, ok |-> FALSE, err |-> PermissionConflict, ret |-> None]
    ELSE [ tbl |-> Put(ptbl, permission_id,
                       [ name |-> permission_data.name,
                         resource |-> permission_data.resource,
                         action |-> permission_data.action,
                         is_active |-> TRUE ]),
           ok |-> TRUE, err |-> "", ret |-> permission_id ]

\* variant: the roles claim of the token decides
check_roles_from_claims(tbl, user, claims, required_roles) ==
    \E role \in required_roles : role \in Get(claims, "roles")

\* variant: every required role must be held
check_roles_all(tbl, user, claims, required_roles) ==
    \A role \in required_roles : role \in tbl[user].roles

\* check_roles of require_roles: any(role in user_roles for role in
\* required_roles); claims is the payload of the bearer token
check_roles(tbl, user, claims, required_roles) ==
    \E role \in required_roles : role \in tbl[user].roles

\* the dependency chain get_current_user -> get_current_active_user ->
\* check_roles
require_roles(tbl, client, up, store, mem, token, t, off, required_roles) ==
    With(get_current_user(tbl, client, up, store, mem, token, t, off), LAMBDA r :
    IF ~r.ok THEN r
    ELSE IF ~tbl[r.user].is_active
    THEN [r EXCEPT !.ok = FALSE, !.err = InactiveUser]
    ELSE IF ~check_roles(tbl, r.user, token.payload, required_roles)
    THEN [r EXCEPT !.ok = FALSE, !.err = Forbidden]
    ELSE r)

\* ---------------------------------------------------- directory operations
NewRoleId(rtbl) == "r" \o ToString(Cardinality(DOMAIN rtbl) + 1)
NewPermissionId(ptbl) == "p" \o ToString(Cardinality(DOMAIN ptbl) + 1)

\* the variables the directory operations leave alone
authvars == << now, tz, redis_client, redis_up, redis_store, memory_sessions,
               attempts, tokens, next_sid, next_jti, minted, revoked,
               auth_log, seen, session_log >>

\* UserService.create_user
CreateUser(data) ==
    \E r \in { repo_create(users, roles, data, NewUserId(users)) } :
       /\ Idle
       /\ users' = r.tbl
       /\ result' = [ op |-> "create_user", ok |-> r.ok, err |-> r.err,
                      ret |-> r.ret, args |-> <<data>>,
                      previous |-> users ] @@ Blank
       /\ UNCHANGED << authvars, mailvars, roles, permissions >>

\* UserService.get_user
GetUser(user_id) ==
    \E r \in { get_user(users, user_id) } :
       /\ Idle
       /\ result' = [ op |-> "get_user", ok |-> r.ok, err |-> r.err,
                      ret |-> r.ret, args |-> <<user_id>> ] @@ Blank
       /\ UNCHANGED << authvars, mailvars, users, roles, permissions >>

\* UserService.update_user
UpdateUser(user_id, data) ==
    \E r \in { repo_update(users, roles, user_id, data) } :
       /\ Idle
       /\ users' = r.tbl
       /\ result' = [ op |-> "update_user", ok |-> r.ok, err |-> r.err,
                      ret |-> r.ret, args |-> <<user_id, data>>,
                      previous |-> users ] @@ Blank
       /\ UNCHANGED << authvars, mailvars, roles, permissions >>

\* UserService.list_users
ListUsers ==
    /\ Idle
    /\ result' = [ op |-> "list_users", ok |-> TRUE,
                   listed |-> list_users(users),
                   total |-> count_users(users) ] @@ Blank
    /\ UNCHANGED << authvars, mailvars, users, roles, permissions >>

\* RoleService.create_role
CreateRole(role_data) ==
    \E r \in { role_create(roles, permissions, role_data, NewRoleId(roles)) } :
       /\ Idle
       /\ roles' = r.tbl
       /\ result' = [ op |-> "create_role", ok |-> r.ok, err |-> r.err,
                      ret |-> r.ret, args |-> <<role_data>>,
                      previous |-> roles ] @@ Blank
       /\ UNCHANGED << authvars, mailvars, users, permissions >>

\* PermissionRepository.create
CreatePermission(permission_data) ==
    \E r \in { permission_create(permissions, permission_data,
                                 NewPermissionId(permissions)) } :
       /\ Idle
       /\ permissions' = r.tbl
       /\ result' = [ op |-> "create_permission", ok |-> r.ok, err |-> r.err,
                      ret |-> r.ret, args |-> <<permission_data>>,
                      previous |-> permissions ] @@ Blank
       /\ UNCHANGED << authvars, mailvars, users, roles >>

\* a route guarded by Depends(require_roles(required_roles))
RequireRoles(token, required_roles) ==
    \E r \in { require_roles(users, redis_client, redis_up, redis_store,
                           memory_sessions, token, now, tz, required_roles) } :
       /\ Idle
       /\ redis_store' = r.store
       /\ memory_sessions' = r.mem
       /\ revoked' = IF r.orphan THEN revoked \cup {<<r.session_id, "orphan">>}
                                 ELSE revoked
       /\ result' = [ op |-> "require_roles", ok |-> r.ok, err |-> r.err,
                      ret |-> r.user, token |-> token, kind |-> "access",
                      cause |-> r.cause, required |-> required_roles,
                      sid |-> Get(token.payload, "session_id") ] @@ Blank
       /\ UNCHANGED << now, tz, users, redis_client, redis_up, attempts, tokens,
                       next_sid, next_jti, minted, auth_log, seen >>
       /\ UNCHANGED << mailvars, extvars >>

\* variant: the body is passed on as the client sent it
own_profile_as_sent(data) == data

\* "user_data.role_ids = None  # Prevent role escalation": the assignment
\* makes role_ids a field that is set, and its value null
own_profile(data) ==
    [data EXCEPT !.given = @ \cup {"role_ids"}, !.role_ids_null = TRUE]

\* the dependency get_current_active_user
get_current_active_user(tbl, client, up, store, mem, token, t, off) ==
    With(get_current_user(tbl, client, up, store, mem, token, t, off), LAMBDA r :
    IF ~r.ok THEN r
    ELSE IF ~tbl[r.user].is_active
    THEN [r EXCEPT !.ok = FALSE, !.err = InactiveUser]
    ELSE r)

\* PUT /auth/me
UpdateCurrentUserProfile(token, data) ==
    \E c \in { get_current_active_user(users, redis_client, redis_up,
                                     redis_store, memory_sessions, token, now,
                                     tz) } :
    \E r \in { IF c.ok THEN repo_update(users, roles, c.user, own_profile(data))
                       ELSE [tbl |-> users, ok |-> FALSE, err |-> c.err,
                             ret |-> None] } :
       /\ Idle
       /\ users' = r.tbl
       /\ redis_store' = c.store
       /\ memory_sessions' = c.mem
       /\ revoked' = IF c.orphan THEN revoked \cup {<<c.session_id, "orphan">>}
                                 ELSE revoked
       /\ result' = [ op |-> "update_current_user_profile", ok |-> r.ok,
                      err |-> r.err, ret |-> r.ret, token |-> token,
                      kind |-> "access", args |-> <<c.user, data>>,
                      previous |-> users ] @@ Blank
       /\ UNCHANGED << now, tz, redis_client, redis_up, attempts, tokens,
                       next_sid, next_jti, minted, auth_log, seen >>
       /\ UNCHANGED << mailvars, extvars >>

\* what clients submit
UserCreates ==
    { [ username |-> "carol", email |-> "carol@example.com",
        password |-> "Secret123!", role_ids |-> {"r2"} ],
      [ username |-> "alice", email |-> "other@example.com",
        password |-> "Secret123!", role_ids |-> {} ],
      [ username |-> "dave", email |-> "bob@example.com",
        password |-> "Secret123!", role_ids |-> {} ],
      [ username |-> "alice", email |-> "bob@example.com",
        password |-> "Secret123!", role_ids |-> {} ] }

UserUpdates ==
    { UserUpdate({"role_ids"}, "", "", {}, FALSE),
      UserUpdate({"role_ids"}, "", "", {"r2", "r9"}, FALSE),
      UserUpdate({"role_ids"}, "", "", {}, TRUE),
      UserUpdate({"username"}, "bob", "", {}, FALSE),
      UserUpdate({"email"}, "", "alice@example.org", {}, FALSE) }

RoleCreates ==
    { [name |-> "admin", permission_ids |-> {}],
      [name |-> "viewer", permission_ids |-> {"p1"}] }

PermissionCreates ==
    { [name |-> "project.create", resource |-> "project", action |-> "create"],
      [name |-> "model.read", resource |-> "model", action |-> "read"] }

RequiredRoles == { {}, {"admin"}, {"admin", "data_scientist"} }

\* ids an admin may name: the rows of the table and one that never existed
NamedUsers == DOMAIN users \cup {"u9"}

\* the directory by itself
InitDir == Init /\ tz = 0 /\ redis_client = FALSE

NextDir ==
    \/ \E data \in UserCreates : CreateUser(data)
    \/ \E data \in Registrations : Register(data)
    \/ \E user_id \in NamedUsers : GetUser(user_id)
    \/ \E user_id \in NamedUsers, data \in UserUpdates : UpdateUser(user_id, data)
    \/ \E user_id \in NamedUsers : DeleteUser(user_id)
    \/ ListUsers
    \/ \E role_data \in RoleCreates : CreateRole(role_data)
    \/ \E permission_data \in PermissionCreates :
          CreatePermission(permission_data)
    \/ Return

SpecDir == InitDir /\ [][NextDir]_vars

\* the admin's tokens at the guarded routes while the directory changes
RoleUpdates == { data \in UserUpdates : data.given = {"role_ids"} }

InitGate == Init /\ tz = 0 /\ redis_client = FALSE

NextGate ==
    \/ Login("alice", "Secret123!", None)
    \/ \E token \in tokens : Refresh(token)
    \/ \E token \in tokens : GetCurrentUser(token)
    \/ \E token \in tokens, required_roles \in RequiredRoles :
          RequireRoles(token, required_roles)
    \/ \E data \in RoleUpdates : UpdateUser("u1", data)
    \/ \E token \in tokens, data \in UserUpdates :
          UpdateCurrentUserProfile(token, data)
    \/ \E user_id \in {"u1", "u9"} : GetUser(user_id)
    \/ \E user_id \in {"u1", "u9"} : DeleteUser(user_id)
    \/ ListUsers
    \/ Return

SpecGate == InitGate /\ [][NextGate]_vars

\* ------------------------------------------------ a password is changed
IncorrectCurrent == "Current password is incorrect"

\* variant: the current password is not verified
service_update_password_unchecked(tbl, store, mem, user_id, current_password, new_password) ==
    With(get_user(tbl, user_id), LAMBDA g :
    IF ~g.ok
    THEN [ok |-> FALSE, err |-> g.err, tbl |-> tbl, store |-> store, mem |-> mem]
    ELSE [ ok |-> TRUE, err |-> "",
           tbl |-> update_password(tbl, user_id, hash_password(new_password)).tbl,
           store |-> store, mem |-> mem ])

\* variant: the user's sessions are deleted with the old password
service_update_password_signing_out(tbl, store, mem, user_id, current_password, new_password) ==
    With(get_user(tbl, user_id), LAMBDA g :
    IF ~g.ok
    THEN [ok |-> FALSE, err |-> g.err, tbl |-> tbl, store |-> store, mem |-> mem]
    ELSE IF ~verify_password(current_password, tbl[user_id].password_hash)
    THEN [ ok |-> FALSE, err |-> IncorrectCurrent, tbl |-> tbl, store |-> store,
           mem |-> mem ]
    ELSE [ ok |-> TRUE, err |-> "",
           tbl |-> update_password(tbl, user_id, hash_password(new_password)).tbl,
           store |-> [ s \in { x \in DOMAIN store : store[x].data.user_id # user_id }
                        |-> store[s] ],
           mem |-> [ s \in { x \in DOMAIN mem : mem[x].user_id # user_id }
                      |-> mem[s] ] ])

\* UserService.update_password: get_user, the check of the current password,
\* the new hash stored; the session manager is not called, so the session
\* store and the memory fallback come back as they went in
service_update_password(tbl, store, mem, user_id, current_password, new_password) ==
    With(get_user(tbl, user_id), LAMBDA g :
    IF ~g.ok
    THEN [ok |-> FALSE, err |-> g.err, tbl |-> tbl, store |-> store, mem |-> mem]
    ELSE IF ~verify_password(current_password, tbl[user_id].password_hash)
    THEN [ ok |-> FALSE, err |-> IncorrectCurrent, tbl |-> tbl, store |-> store,
           mem |-> mem ]
    ELSE [ ok |-> TRUE, err |-> "",
           tbl |-> update_password(tbl, user_id, hash_password(new_password)).tbl,
           store |-> store, mem |-> mem ])

UpdatePassword(user_id, current_password, new_password) ==
    \E r \in { service_update_password(users, redis_store, memory_sessions,
                                       user_id, current_password, new_password) } :
       /\ Idle
       /\ users' = r.tbl
       /\ redis_store' = r.store
       /\ memory_sessions' = r.mem
       /\ result' = [ op |-> "update_password", ok |-> r.ok, err |-> r.err,
                      ret |-> IF r.ok THEN user_id ELSE None,
                      args |-> <<user_id, current_password, new_password>>,
                      previous |-> users ] @@ Blank
       /\ UNCHANGED << now, tz, redis_client, redis_up, attempts, tokens,
                       next_sid, next_jti, minted, revoked, auth_log, seen,
                       session_log >>
       /\ UNCHANGED << mailvars, roles, permissions >>

\* alice's sessions and tokens while her password is changed, by herself and
\* through the reset mail
InitPass == Init /\ tz = 0

NextPass ==
    \/ Login("alice", "Secret123!", None)
    \/ \E token \in tokens : Refresh(token)
    \/ \E token \in tokens : GetCurrentUser(token)
    \/ \E user_id \in {"u1", "u9"}, current_password \in Passwords,
          new_password \in NewPasswords :
          UpdatePassword(user_id, current_password, new_password)
    \/ RequestPasswordReset("alice@example.com")
    \/ \E token \in DOMAIN reset_tokens, new_password \in NewPasswords :
          ResetPasswordBegin(token, new_password)
    \/ \E p \in pending : ResetPasswordFinish(p)
    \/ Return

SpecPass == InitPass /\ [][NextPass]_vars

\* ----------------------------------------- one refresh token, used again
MaxReuse == 6

InitReuse == Init /\ tz = 0

NextReuse ==
    \/ Login("alice", "Secret123!", None)
    \/ \E token \in tokens : RefreshWithin(token, MaxReuse)
    \/ \E token \in tokens : GetCurrentUser(token)
    \/ \E token \in tokens : Logout(token)
    \/ DeleteUser("u1")
    \/ Tick(LongStep, MaxTimeLife)
    \/ Return

SpecReuse == InitReuse /\ [][NextReuse]_vars

\* -------------------------------------------------- AuthenticationMiddleware
\* A path is the sequence of its separators and segments: "/health" is
\* << "/", "health" >>.  No segment used below begins another one, so that
\* str.startswith is the prefix test on these sequences.
StartsWith(path, prefix) ==
    /\ Len(prefix) <= Len(path)
    /\ SubSeq(path, 1, Len(prefix)) = prefix

\* "part in path" for strings
Contains(path, part) ==
    \E i \in 0 .. (Len(path) - Len(part)) :
        SubSeq(path, i + 1, i + Len(part)) = part

exclude_paths ==
    { << "/" >>,
      << "/", "health" >>,
      << "/", "docs" >>,
      << "/", "redoc" >>,
      << "/", "openapi.json" >>,
      << "/", "api", "/", "v1", "/", "auth", "/", "login" >>,
      << "/", "api", "/", "v1", "/", "auth", "/", "register" >> }

\* the Authorization header: no header, "Bearer <token>", another scheme
NoHeader == [scheme |-> "", token |-> Garbage]
Bearer(token) == [scheme |-> "Bearer", token |-> token]
Basic == [scheme |-> "Basic", token |-> Garbage]

RATE_LIMIT_EXCEEDED == Response(429, "RATE_LIMIT_EXCEEDED")
AUTHENTICATION_REQUIRED == Response(401, "AUTHENTICATION_REQUIRED")
AUTHENTICATION_FAILED == Response(401, "AUTHENTICATION_FAILED")
\* what the middleware returns when it has called call_next
Downstream == Response(0, "call_next")

\* AuthenticationMiddleware.dispatch: whether call_next was called, the
\* response, and _attempts as is_rate_limited leaves it
dispatch(exclude, att, path, client_ip, authorization, t, off) ==
    With(IF client_ip # None THEN client_ip ELSE "unknown", LAMBDA host :
    IF \E prefix \in exclude : StartsWith(path, prefix)
    THEN [called |-> TRUE, response |-> Downstream, att |-> att]
    ELSE IF Contains(path, << "/", "auth", "/" >>) /\ is_rate_limited(att, host, t)
    THEN [ called |-> FALSE, response |-> RATE_LIMIT_EXCEEDED,
           att |-> CleanOld(att, host, t) ]
    ELSE With(IF Contains(path, << "/", "auth", "/" >>)
              THEN CleanOld(att, host, t) ELSE att, LAMBDA att1 :
         IF authorization.scheme # "Bearer"
         THEN [called |-> FALSE, response |-> AUTHENTICATION_REQUIRED, att |-> att1]
         ELSE IF ~verify_token(authorization.token, "access", t, off).ok
         THEN [called |-> FALSE, response |-> AUTHENTICATION_FAILED, att |-> att1]
         ELSE [called |-> TRUE, response |-> Downstream, att |-> att1]))

\* a request passes through the middleware
Dispatch(path, client_ip, authorization) ==
    \E r \in { dispatch(exclude_paths, attempts, path, client_ip, authorization,
                      now, tz) } :
       /\ Idle
       /\ attempts' = r.att
       /\ result' = [ op |-> "dispatch", ok |-> r.called,
                      response |-> r.response,
                      args |-> <<path, client_ip, authorization>> ] @@ Blank
       /\ UNCHANGED << now, tz, users, redis_client, redis_up, redis_store,
                       memory_sessions, tokens, next_sid, next_jti, minted,
                       revoked, auth_log, seen >>
       /\ UNCHANGED << mailvars, extvars >>

\* the requests: public paths, a protected path under /auth/ and one not
Paths ==
    { << "/" >>,
      << "/", "health" >>,
      << "/", "api", "/", "v1", "/", "auth", "/", "login" >>,
      << "/", "api", "/", "v1", "/", "auth", "/", "me" >>,
      << "/", "api", "/", "v1", "/", "users" >> }

Headers == {NoHeader, Basic} \cup { Bearer(token) : token \in tokens \cup {Garbage} }

InitEdge == Init /\ tz = 0 /\ redis_client = FALSE

NextEdge ==
    \/ Login("alice", "Secret123!", None)
    \/ Authenticate("mallory", "Secret123!", "10.0.0.1")
    \/ \E path \in Paths, client_ip \in ClientIps, authorization \in Headers :
          Dispatch(path, client_ip, authorization)
    \/ \E d \in RateSteps : Tick(d, MaxTimeRate)
    \/ Return

SpecEdge == InitEdge /\ [][NextEdge]_vars

\* ------------------------------------- authenticate_user, calls interleaved
\* authenticate_user from the return of "await get_by_username_or_email" on:
\* att is _attempts as the call finds it then
authenticate_user_resumed(tbl, att, identifier, username, password, t) ==
    With(get_by_username_or_email(tbl, username), LAMBDA user :
    With([ identifier |-> identifier, user |-> None, att |-> att,
           looked_up |-> TRUE, hashed |-> user # None, ok |-> FALSE,
           err |-> "" ], LAMBDA base :
    IF user = None \/ ~verify_password(password, tbl[user].password_hash)
    THEN [base EXCEPT !.att = record_attempt(att, identifier, TRUE, t),
                      !.err = InvalidCredentials]
    ELSE IF ~tbl[user].is_active
    THEN [base EXCEPT !.att = record_attempt(att, identifier, TRUE, t),
                      !.err = Deactivated]
    ELSE [base EXCEPT !.att = record_attempt(att, identifier, FALSE, t),
                      !.user = user, !.ok = TRUE]))

\* the calls of authenticate_user begun so far that passed the rate limit
Begun ==
    TotalLen(auth_log, DOMAIN auth_log)
       + Cardinality({ p \in pending : p.op = "authenticate" })

\* authenticate_user up to "await self.user_repo.get_by_username_or_email":
\* the rate-limit check; a call that passes it is suspended, numbered by the
\* calls begun before it
AuthenticateBegin(username, password, client_ip) ==
    \E identifier \in { IF client_ip # None THEN client_ip ELSE username } :
    /\ Idle
    /\ attempts' = CleanOld(attempts, identifier, now)
    /\ IF is_rate_limited(attempts, identifier, now)
       THEN /\ result' =
                  AuthResult("authenticate",
                             [ identifier |-> identifier, user |-> None,
                               att |-> CleanOld(attempts, identifier, now),
                               looked_up |-> FALSE, hashed |-> FALSE,
                               ok |-> FALSE, err |-> TooMany ],
                             username, password, client_ip)
            /\ UNCHANGED pending
       ELSE /\ Begun < MaxCalls
            /\ Cardinality(pending) < MaxPending
            /\ pending' = pending \cup
                  { Suspended("authenticate", ToString(Begun), username,
                              identifier, password, {}) }
            /\ UNCHANGED result
    /\ UNCHANGED << extvars, now, tz, users, redis_client, redis_up, redis_store,
                    memory_sessions, tokens, next_sid, next_jti, minted,
                    revoked, auth_log, seen, verification_tokens, reset_tokens,
                    next_tok, token_log >>

\* ... and from the return of the lookup on: the password is verified and the
\* outcome recorded
AuthenticateFinish(p) ==
    \E o \in { authenticate_user_resumed(users, attempts, p.email, p.user,
                                       p.password, now) } :
    /\ Idle
    /\ p.op = "authenticate"
    /\ pending' = pending \ {p}
    /\ attempts' = o.att
    /\ auth_log' = AuthLogged(o)
    /\ result' = AuthResult("authenticate", o, p.user, p.password,
                            IF p.email = p.user THEN None ELSE p.email)
    /\ UNCHANGED << extvars, now, tz, users, redis_client, redis_up, redis_store,
                    memory_sessions, tokens, next_sid, next_jti, minted,
                    revoked, seen, verification_tokens, reset_tokens, next_tok,
                    token_log >>

InitRace == Init /\ tz = 0 /\ redis_client = FALSE

NextRace ==
    \/ \E password \in Passwords : AuthenticateBegin("alice", password, None)
    \/ \E p \in pending : AuthenticateFinish(p)
    \/ \E d \in RateSteps : Tick(d, MaxTimeRate)
    \/ Return

SpecRace == InitRace /\ [][NextRace]_vars

\* ==================================================================
\* Claims on the token lifecycle (Spec)
\* ==================================================================
SessIds == DOMAIN redis_store \cup DOMAIN memory_sessions

IsTokenCall == result.op \in {"refresh", "get_current_user"}

TypeOf(token) == Get(token.payload, "type")

\* C1: once logout has deleted session s, every refresh and get_current_user
\* call with a token whose session_id is s fails, issues no token and returns
\* no user; when the token itself verifies (signature, type, expiry) the
\* error is AuthenticationError("Session expired").
C1_LoggedOutSessionRejected ==
    (IsTokenCall /\ "logout" \in result.gone)
        => /\ ~result.ok
           /\ result.issued = {}
           /\ result.ret = None
           /\ result.cause = "" => result.err = SessionExpired
           /\ result.cause # "" => result.err = HTTP_401

C1_Witness ==
    /\ IsTokenCall
    /\ "logout" \in result.gone
    /\ result.token \in tokens
    /\ result.cause = ""
    /\ result.err = SessionExpired

\* C2: a session under the session_id of an issued token belongs to the
\* token's sub; refresh and get_current_user accept only issued tokens whose
\* session resolves (get_current_user returns the sub); no step changes the
\* user_id of a session.
C2_TokenSessionUser ==
    /\ \A t \in tokens :
          LET s == Get(t.payload, "session_id") IN
          /\ s \in DOMAIN redis_store
                => redis_store[s].data.user_id = t.payload["sub"]
          /\ s \in DOMAIN memory_sessions
                => memory_sessions[s].user_id = t.payload["sub"]
    /\ (IsTokenCall /\ result.ok)
          => /\ result.token \in tokens
             /\ result.sid \in SessIds
             /\ result.op = "get_current_user"
                   => result.ret = result.token.payload["sub"]

C2_UserIdKept ==
    /\ \A s \in DOMAIN redis_store \cap DOMAIN redis_store' :
          redis_store'[s].data.user_id = redis_store[s].data.user_id
    /\ \A s \in DOMAIN memory_sessions \cap DOMAIN memory_sessions' :
          memory_sessions'[s].user_id = memory_sessions[s].user_id

C4_RefreshStep ==
    (result'.op = "refresh" /\ result'.ok /\ result' # result)
        => /\ SessIds' = SessIds
           /\ Cardinality(result'.issued) = 2
           /\ { TypeOf(t) : t \in result'.issued } = {"access", "refresh"}
           /\ \A t \in result'.issued :
                 /\ t \notin tokens
                 /\ t \in tokens'
                 /\ Get(t.payload, "session_id") = result'.sid
                 /\ Get(t.payload, "session_id")
                       = Get(result'.token.payload, "session_id")

\* C4: every step that is a successful refresh hands out two new tokens with
\* the presented token's session_id and leaves the set of sessions as it was.
C4_RefreshKeepsSession == [][C4_RefreshStep]_vars

C4_Witness ==
    /\ result.op = "refresh"
    /\ result.ok
    /\ result.sid \in SessIds
    /\ Cardinality(result.issued) = 2

\* C5: verify_token(token, k) succeeds only for a token whose type claim is
\* k; refresh rejects every access token, get_current_user rejects every
\* refresh token, and logout with a refresh token returns false without
\* reaching a session.
C5_KindsNotInterchangeable ==
    /\ \A token \in Presentable, k \in {"access", "refresh"} :
          verify_token(token, k, now, tz).ok => TypeOf(token) = k
    /\ (result.op = "refresh" /\ TypeOf(result.token) # "refresh")
          => ~result.ok /\ result.issued = {}
    /\ (result.op = "get_current_user" /\ TypeOf(result.token) # "access")
          => ~result.ok /\ result.ret = None
    /\ (result.op = "logout" /\ TypeOf(result.token) # "access")
          => result.ret = FALSE /\ result.cause # ""

\* an unexpired, correctly signed token of the other kind is turned away
C5_Witness ==
    /\ result.cause = "wrong_type"
    /\ result.token \in tokens
    /\ \/ result.op = "refresh" /\ TypeOf(result.token) = "access"
       \/ result.op = "logout" /\ TypeOf(result.token) = "refresh"

\* ==================================================================
\* Claims on the codec (SpecCodec)
\* ==================================================================
\* the token of the last verify_token call was made by create_access_token
VerifiedAccessToken ==
    /\ result.op = "verify_token"
    /\ result.kind = "access"
    /\ result.token \in tokens
    /\ minted[result.token.payload["jti"]].kind = "access"

\* the payload create_access_token signed for the claims it was given
ExpectedPayload(m, jti) ==
    [ k \in DOMAIN m.claims \cup {"exp", "type", "jti"} |->
        IF k = "exp" THEN m.at + AccessTtl
        ELSE IF k = "type" THEN "access"
        ELSE IF k = "jti" THEN jti
        ELSE m.claims[k] ]

\* C6: for every claims map c and every zone offset of the host,
\* verify_token(create_access_token(c), "access") before exp returns c with
\* exp, type = "access" and jti, and after exp it fails.
C6_AccessRoundTrip ==
    VerifiedAccessToken
        => LET jti == result.token.payload["jti"]
               exp == result.token.payload["exp"]
           IN /\ now < exp
                    => /\ result.ok
                       /\ result.payload = ExpectedPayload(minted[jti], jti)
              /\ now > exp => ~result.ok

IsAuthCall == result.op \in {"authenticate", "login"}

\* the credentials of the last authenticate call match an active user
CredentialsValid ==
    LET u == get_by_username_or_email(users, result.args[1])
    IN u # None /\ verify_password(result.args[2], users[u].password_hash)

Identifiers == ClientIps \cup LoginNames

\* C8: once max_attempts failures of identifier X lie inside the window, the
\* next authenticate call for X fails with the rate-limit error and reaches
\* neither the user lookup nor the password hash comparison, whatever the
\* credentials.
C8_LimitedBeforeLookup ==
    (IsAuthCall /\ result.prior >= max_attempts)
        => /\ ~result.ok
           /\ result.err = TooMany
           /\ ~result.looked_up
           /\ ~result.hashed

C8_Witness ==
    /\ result.op = "authenticate"
    /\ result.prior >= max_attempts
    /\ CredentialsValid
    /\ result.err = TooMany

\* C9: is_rate_limited(id) is true exactly when at least max_attempts failed
\* attempts of id have a timestamp inside the last window_minutes; a call with
\* valid credentials that is not limited succeeds (so it succeeds again once
\* the window has elapsed).
C9_LimitedIffWindowFull ==
    /\ \A id \in Identifiers :
          is_rate_limited(attempts, id, now)
              <=> FailedInWindow(auth_log, id, now) >= max_attempts
    /\ IsAuthCall => (result.err = TooMany <=> result.prior >= max_attempts)
    /\ (IsAuthCall /\ result.prior < max_attempts /\ CredentialsValid)
          => result.ok

\* a success of an identifier whose max_attempts failures have aged out
C9_Witness ==
    /\ result.op = "authenticate"
    /\ result.ok
    /\ LET l == Entries(auth_log, result.ident)
           failed == { i \in DOMAIN l : l[i][2] }
       IN /\ Cardinality(failed) >= max_attempts
          /\ \A i, j \in failed : l[i][1] - l[j][1] < window_minutes
          /\ \A i \in failed : now - l[i][1] >= window_minutes

IsVerifyEmail == result.op = "verify_email"
IsResetPassword == result.op = "reset_password"

\* the tokens of a user that are neither used nor past their expiry
LiveTokens(reg, user_id) ==
    { k \in DOMAIN reg : reg[k].user_id = user_id /\ Live(reg, k, now) }

\* C11: a verify_email call made with a token for which an earlier
\* verify_email call has returned successfully fails with ValidationError.
C11_VerificationTokenSingleUse ==
    (IsVerifyEmail /\ "verified" \in result.gone)
        => result.err = InvalidVerification

\* C12: when resend_verification has issued a token, every other token of
\* that user is marked used and the new one is live; a verify_email call made
\* with a superseded token fails with ValidationError; a verify_email call
\* whose token passed the check succeeds unless the user is gone, and after a
\* success the user is verified.
C12_ResendSupersedes ==
    /\ (result.op = "resend_verification" /\ result.issued # {})
          => \A k \in DOMAIN verification_tokens :
                /\ (verification_tokens[k].user_id = result.ret
                        /\ k \notin result.issued)
                      => verification_tokens[k].used
                /\ k \in result.issued
                      => /\ Live(verification_tokens, k, now)
                         /\ verification_tokens[k].user_id = result.ret
    /\ (IsVerifyEmail /\ "superseded" \in result.gone)
          => result.err = InvalidVerification
    /\ (IsVerifyEmail /\ result.cause = "")
          => result.ok \/ result.err = NotFound
    /\ (IsVerifyEmail /\ result.ok) => users[result.ret].is_verified

\* the old token is refused while the token that replaced it is live
C12_Witness ==
    /\ IsVerifyEmail
    /\ "superseded" \in result.gone
    /\ result.err = InvalidVerification
    /\ \E k \in DOMAIN verification_tokens :
          /\ Live(verification_tokens, k, now)
          /\ verification_tokens[k].user_id
                = verification_tokens[result.args[1]].user_id

\* C13: every user has at most one live email-verification token and at most
\* one live password-reset token.
C13_OneLiveTokenPerPurpose ==
    \A u \in DOMAIN users :
        /\ Cardinality(LiveTokens(verification_tokens, u)) <= 1
        /\ Cardinality(LiveTokens(reset_tokens, u)) <= 1

\* C14: for every reset token at most one reset_password call has succeeded
\* in changing the password.
C14_ResetTokenConsumedOnce ==
    \A k \in DOMAIN reset_tokens :
        Cardinality({ e \in token_log : e[1] = "reset" /\ e[2] = k }) <= 1

\* a token that is used or expired stays in the registry, used or expired
C15_StaysAbsorbed(reg, reg2, t2) ==
    \A k \in DOMAIN reg :
        (reg[k].used \/ now > reg[k].expiry)
            => /\ k \in DOMAIN reg2
               /\ reg2[k].used \/ t2 > reg2[k].expiry
               /\ ~Live(reg2, k, t2)

C15_Step ==
    /\ C15_StaysAbsorbed(verification_tokens, verification_tokens', now')
    /\ C15_StaysAbsorbed(reset_tokens, reset_tokens', now')

\* a missing, a used and an expired token get the same answer
C15_SameNone ==
    /\ (IsVerifyEmail /\ result.cause # "")
          => /\ result.cause \in {"missing", "used", "expired"}
             /\ ~result.ok
             /\ result.ret = None
             /\ result.err = InvalidVerification
    /\ (IsResetPassword /\ result.cause # "")
          => /\ result.cause \in {"missing", "used", "expired"}
             /\ ~result.ok
             /\ result.ret = None
             /\ result.err = InvalidReset

\* C15: a verification or reset token that is used or past its expiry stays
\* so in every later state, so its lookup returns none from then on, and the
\* caller gets the same result for a missing, a used and an expired token.
C15_ConsumedExpiredAbsorbing == [](C15_SameNone) /\ [][C15_Step]_vars

\* an expired token is refused while a used one is in the registry
C15_Witness ==
    /\ IsVerifyEmail \/ IsResetPassword
    /\ result.cause = "expired"
    /\ \E k \in DOMAIN verification_tokens \cup DOMAIN reset_tokens :
          (verification_tokens @@ reset_tokens)[k].used

C16_AfterReset ==
    (IsResetPassword /\ result.ok)
        => /\ "reset" \notin result.gone
           /\ \A q \in Passwords \cup NewPasswords :
                 authenticate_user(users, attempts, users[result.ret].username,
                                   q, None, now).ok
                    <=> q = result.args[2]
           /\ users[result.ret].password_hash = hash_password(result.args[2])

C16_SecondUse ==
    (IsResetPassword /\ "reset" \in result.gone)
        => result.err = InvalidReset

C16_SecondUseStep ==
    (result' # result /\ result'.op = "reset_password"
        /\ "reset" \in result'.gone)
        => users' = users

\* C16: after a successful reset_password(t, p) the user authenticates with
\* p and with no other password; a reset_password call made with t after
\* that fails with ValidationError("Invalid or expired reset token") and
\* leaves the users table as it was.
C16_ResetThenConsumed ==
    [](C16_AfterReset /\ C16_SecondUse) /\ [][C16_SecondUseStep]_vars

\* the token is presented again after it has changed the password
C16_Witness ==
    /\ IsResetPassword
    /\ "reset" \in result.gone
    /\ result.err = InvalidReset
    /\ \E u \in DOMAIN users :
          /\ u = reset_tokens[result.args[1]].user_id
          /\ ~verify_password("Secret123!", users[u].password_hash)

\* C17: request_password_reset returns true and the route answers with the
\* same body for every email; a reset token is created exactly when an
\* active user has that email.
C17_ResetRequestAlwaysTrue ==
    result.op = "request_password_reset"
        => /\ result.ok
           /\ result.ret = TRUE
           /\ result.response = ResetGeneric
           /\ (result.issued # {})
                 <=> (\E u \in DOMAIN users : /\ users[u].email = result.args[1]
                                              /\ users[u].is_active)
           /\ \A k \in result.issued :
                 /\ users[reset_tokens[k].user_id].email = result.args[1]
                 /\ Live(reset_tokens, k, now)

\* the email of a soft-deleted account: true, and no token
C17_Witness ==
    /\ result.op = "request_password_reset"
    /\ result.ret = TRUE
    /\ result.issued = {}
    /\ \E u \in DOMAIN users : /\ users[u].email = result.args[1]
                               /\ ~users[u].is_active

\* C18: POST /auth/resend-verification answers every email with the same
\* generic success response.
C18_ResendGenericResponse ==
    result.op = "resend_verification" => result.response = ResendGeneric

\* ------------------------------------------------ failures look the same
\* the users table without the rows a name resolves to
Without(tbl, name) ==
    [ u \in { x \in DOMAIN tbl : /\ tbl[x].username # name
                                 /\ tbl[x].email # name } |-> tbl[u] ]

C19_Failure ==
    (IsAuthCall /\ result.err # TooMany /\ ~CredentialsValid)
        => /\ ~result.ok
           /\ result.err = InvalidCredentials
           /\ result.ret = None
           /\ result.after = result.before + 1

\* the same call against a table in which the name is unknown
C19_Twin ==
    (result' # result /\ result'.op = "authenticate"
        /\ result'.err = InvalidCredentials)
        => LET a == result'.args
               twin == authenticate_user(Without(users, a[1]), attempts,
                                         a[1], a[2], a[3], now)
           IN /\ twin.ok = result'.ok
              /\ twin.err = result'.err
              /\ twin.user = result'.ret
              /\ twin.att = attempts'

\* C19: authenticate with an unknown name and authenticate with a known name
\* and a wrong password both fail with AuthenticationError("Invalid
\* credentials") and both add exactly one failed attempt for the identifier:
\* the call against a table without the user ends as the call made.
C19_FailuresLookTheSame == [](C19_Failure) /\ [][C19_Twin]_vars

\* an unknown name fails after a wrong password under the same identifier
C19_Witness ==
    /\ IsAuthCall
    /\ result.args[1] = "mallory"
    /\ result.err = InvalidCredentials
    /\ result.before >= 1
    /\ result.after = result.before + 1

\* ------------------------------------------------ what logout returns
\* C20 as stated: logout never raises and a token that fails verification
\* does not make it return false
C20_BadTokenNotFalse ==
    result.op = "logout"
        => /\ result.ok
           /\ result.cause # "" => result.ret = TRUE

\* the map delete_session works on
Backend(store, mem) == IF redis_client /\ redis_up THEN store ELSE mem

C20_Step ==
    (result' # result /\ result'.op = "logout")
        => LET sid == result'.sid
               held == DOMAIN Backend(redis_store, memory_sessions)
           IN /\ result'.ok
              /\ (result'.cause # "")
                    <=> ~verify_token(result'.token, "access", now, tz).ok
              /\ IF result'.cause # ""
                 THEN /\ result'.ret = FALSE
                      /\ redis_store' = redis_store
                      /\ memory_sessions' = memory_sessions
                 ELSE IF sid = None
                 THEN /\ result'.ret = TRUE
                      /\ redis_store' = redis_store
                      /\ memory_sessions' = memory_sessions
                 ELSE /\ result'.ret = (sid \in held)
                      /\ sid \notin DOMAIN Backend(redis_store', memory_sessions')

\* C20 (amended): logout never raises; it returns false and deletes nothing
\* when the token fails verification; otherwise it returns what
\* delete_session returns for the session_id claim (true when the session was
\* held and is now gone, false when it was not held), and true when the token
\* carries no session_id.
C20_LogoutReturnsDeleteResult == [][C20_Step]_vars

\* an issued access token past its expiry, its session still held
C20_Witness ==
    /\ result.op = "logout"
    /\ result.token \in tokens
    /\ TypeOf(result.token) = "access"
    /\ result.cause # ""
    /\ result.ret = FALSE
    /\ result.sid \in DOMAIN Backend(redis_store, memory_sessions)

\* ==================================================================
\* Claims on the session store (SpecBackend, SpecOutage)
\* ==================================================================
IsGet == result.op = "get_session"

\* C21: get(session_id) returns the session if and only if it was created, has
\* not been deleted and was created or last returned by get less than the
\* refresh-token lifetime ago, with the memory map as with Redis.
C21_SlidingExpiryBothBackends ==
    IsGet => (result.ok <=> /\ result.known
                            /\ ~result.deleted
                            /\ result.idle < RefreshTtl)

\* C22: once delete(session_id) has been called, no later get(session_id)
\* returns session data, whatever the Redis server did in between.
C22_DeletedNeverResurrected ==
    (IsGet /\ result.deleted) => ~result.ok

\* C23: a session create returned that has been neither deleted nor idle for
\* the refresh-token lifetime is returned by every later get, whatever the
\* Redis server did in between.
C23_CreatedSessionFound ==
    (IsGet /\ result.known /\ ~result.deleted /\ result.idle < RefreshTtl)
        => result.ok

\* ==================================================================
\* Claims on the directory and the guarded routes (SpecGate, SpecDir)
\* ==================================================================
\* delete_user has succeeded for u
Gone(u) == u \in DOMAIN users /\ ~users[u].is_active

GoneUsers == { u \in DOMAIN users : Gone(u) }

SubOf(token) == Get(token.payload, "sub")

C24_TreatedAsGone ==
    /\ (result.op = "get_user" /\ Gone(result.args[1]))
          => ~result.ok /\ result.err = NotFound
    /\ (result.op = "login"
          /\ \E u \in GoneUsers :
                result.args[1] \in {users[u].username, users[u].email})
          => /\ ~result.ok
             /\ result.issued = {}
             /\ result.err \in {InvalidCredentials, TooMany}
    /\ (result.op \in {"refresh", "get_current_user", "require_roles"}
          /\ Gone(SubOf(result.token)))
          => ~result.ok /\ result.issued = {} /\ result.ret = None
    /\ result.op = "list_users"
          => /\ result.listed \cap GoneUsers = {}
             /\ result.total = Cardinality(DOMAIN users \ GoneUsers)

C24_StaysGone == \A u \in GoneUsers : u \in DOMAIN users' /\ ~users'[u].is_active

\* C24: after delete_user(u) has succeeded, get_user(u) fails with
\* NotFoundError, a login with u's name fails, refresh, get_current_user and
\* the role check with u's tokens fail, list_users neither returns nor counts
\* u, and no step makes u active again.
C24_DeletedUserGone == [](C24_TreatedAsGone) /\ [][C24_StaysGone]_vars

\* a token issued to the admin before the delete is turned away after it
C24_Witness ==
    /\ result.op = "get_current_user"
    /\ result.token \in tokens
    /\ Gone(SubOf(result.token))
    /\ result.err \in {UserNotFound, SessionExpired}

C25_Step ==
    (result' # result /\ result'.op = "delete_user"
        /\ get_by_id(users, result'.args[1]) = None)
        => /\ result'.ok
           /\ result'.ret = FALSE
           /\ UNCHANGED << users, roles, permissions, authvars, mailvars >>

C25_Twice ==
    \A u \in NamedUsers :
        With(repo_delete(users, u), LAMBDA once :
        With(repo_delete(once.tbl, u), LAMBDA twice :
            twice.tbl = once.tbl /\ twice.ret = FALSE))

\* C25: delete_user on a soft-deleted or never-existing id returns false
\* without raising and changes no state; delete_user twice leaves the table
\* one delete_user leaves.
C25_SoftDeleteIdempotent == [](C25_Twice) /\ [][C25_Step]_vars

\* the second delete of a soft-deleted user
C25_Witness ==
    /\ result.op = "delete_user"
    /\ Gone(result.args[1])
    /\ result.ret = FALSE

IsRoleCheck == result.op = "require_roles"

C26_Cleared ==
    (result' # result /\ result'.op = "update_user" /\ result'.ok
        /\ "role_ids" \in result'.args[2].given
        /\ ~result'.args[2].role_ids_null
        /\ result'.args[2].role_ids = {})
        => users'[result'.args[1]].roles = {}

C26_Denied ==
    (IsRoleCheck /\ result.required = {"admin"}
        /\ SubOf(result.token) \in DOMAIN users
        /\ users[SubOf(result.token)].roles = {})
        => /\ ~result.ok
           /\ result.ret # None => result.err = Forbidden

\* C26: an update of role_ids to the empty list leaves the user without
\* roles, and from then on require_roles(["admin"]) denies the user with 403,
\* also when the access token was issued before and its roles claim lists
\* admin.
C26_ClearedRolesDenied == [](C26_Denied) /\ [][C26_Cleared]_vars

\* the token still says admin, the table says no roles, the route says 403
C26_Witness ==
    /\ IsRoleCheck
    /\ result.required = {"admin"}
    /\ result.token \in tokens
    /\ "admin" \in Get(result.token.payload, "roles")
    /\ users[SubOf(result.token)].roles = {}
    /\ result.err = Forbidden

\* C27: require_roles(R) admits the authenticated user exactly when one of
\* the user's current role names is in R; a user without roles, and any user
\* when R is empty, is denied with 403.
C27_AdmitsIffRolesMeet ==
    (IsRoleCheck /\ result.ret # None)
        => /\ result.ok <=> users[result.ret].roles \cap result.required # {}
           /\ ~result.ok => result.err = Forbidden
           /\ (users[result.ret].roles = {} \/ result.required = {})
                 => result.err = Forbidden

\* one of two required roles is held
C27_Witness ==
    /\ IsRoleCheck
    /\ result.ok
    /\ result.required = {"admin", "data_scientist"}
    /\ users[result.ret].roles = {"data_scientist"}

IsUpdate == result.op = "update_user"

C28_Step ==
    (result' # result /\ result'.op = "update_user" /\ result'.ok)
        => LET u == result'.args[1]
               data == result'.args[2]
               old == users[u]
               new == users'[u]
           IN /\ new.roles = IF "role_ids" \in data.given /\ ~data.role_ids_null
                             THEN RoleNames(roles, data.role_ids)
                             ELSE old.roles
              /\ new.username = IF "username" \in data.given
                                THEN data.username ELSE old.username
              /\ new.email = IF "email" \in data.given
                             THEN data.email ELSE old.email
              /\ new.password_hash = old.password_hash
              /\ new.is_active = old.is_active
              /\ new.is_verified = old.is_verified
              /\ DOMAIN users' = DOMAIN users
              /\ \A other \in DOMAIN users \ {u} : users'[other] = users[other]

\* C28: update_user with role_ids replaces the role set by the roles named
\* (the ones not named are removed, the empty list clears all), and
\* update_user without role_ids leaves the role set and every field not named
\* as they were.
C28_RoleIdsReplace == [][C28_Step]_vars

\* admin replaced by data_scientist
C28_Witness ==
    /\ IsUpdate
    /\ result.ok
    /\ result.args[2].role_ids = {"r2", "r9"}
    /\ result.previous[result.args[1]].roles = {"admin"}
    /\ users[result.args[1]].roles = {"data_scientist"}

\* the name a create call asks for is held by a row of the table
Taken(tbl, name) == \E x \in DOMAIN tbl : tbl[x].name = name

UserTaken(tbl, username, email) ==
    \E u \in DOMAIN tbl : tbl[u].username = username \/ tbl[u].email = email

C29_Step ==
    /\ (result' # result /\ result'.op = "create_user"
          /\ UserTaken(users, result'.args[1].username, result'.args[1].email))
          => /\ ~result'.ok /\ result'.err = Conflict
             /\ UNCHANGED << users, roles, permissions, mailvars >>
    /\ (result' # result /\ result'.op = "register"
          /\ result'.err # PasswordsDoNotMatch
          /\ \E u \in DOMAIN users : users[u].email = result'.args[1])
          => /\ ~result'.ok /\ result'.err = Conflict
             /\ result'.issued = {}
             /\ UNCHANGED << users, roles, permissions, mailvars >>
    /\ (result' # result /\ result'.op = "create_role"
          /\ Taken(roles, result'.args[1].name))
          => /\ ~result'.ok /\ result'.err = RoleConflict
             /\ UNCHANGED << users, roles, permissions, mailvars >>
    /\ (result' # result /\ result'.op = "create_permission"
          /\ Taken(permissions, result'.args[1].name))
          => /\ ~result'.ok /\ result'.err = PermissionConflict
             /\ UNCHANGED << users, roles, permissions, mailvars >>

\* C29: creating a user whose username or email exists, or a role or
\* permission whose name exists, fails with ConflictError and adds no record;
\* a registration (its passwords matching) under a taken name generates no
\* verification token either.
C29_DuplicateCreateConflict == [][C29_Step]_vars

\* C30: update_user that sets username or email to a value another user holds
\* is rejected with ConflictError and leaves both users unchanged.
C30_UpdateConflict ==
    (IsUpdate
        /\ result.args[1] \in DOMAIN result.previous
        /\ result.previous[result.args[1]].is_active
        /\ \E other \in DOMAIN result.previous \ {result.args[1]} :
              \/ /\ "username" \in result.args[2].given
                 /\ result.previous[other].username = result.args[2].username
              \/ /\ "email" \in result.args[2].given
                 /\ result.previous[other].email = result.args[2].email)
        => /\ ~result.ok
           /\ result.err = Conflict
           /\ users = result.previous

\* ==================================================================
\* Claims on password changes (SpecPass)
\* ==================================================================
IsPasswordUpdate ==
    /\ result.op = "update_password"
    /\ get_by_id(result.previous, result.args[1]) # None

\* C31: update_password with an incorrect current password fails with
\* AuthenticationError ("Current password is incorrect") and leaves the stored
\* password hash, and the table with it, unchanged; with the correct current
\* password the stored hash afterwards verifies the new password.
C31_CurrentPasswordChecked ==
    IsPasswordUpdate =>
        IF verify_password(result.args[2],
                           result.previous[result.args[1]].password_hash)
        THEN /\ result.ok
             /\ verify_password(result.args[3],
                                users[result.args[1]].password_hash)
        ELSE /\ ~result.ok
             /\ result.err = IncorrectCurrent
             /\ users = result.previous

\* the password once changed, the first password is refused as the current one
C31_Witness ==
    /\ IsPasswordUpdate
    /\ result.args[2] = "Secret123!"
    /\ result.err = IncorrectCurrent
    /\ verify_password("NewPass1!", users[result.args[1]].password_hash)

PasswordChanged(r) == r.op \in {"update_password", "reset_password"} /\ r.ok

Resolves(store, mem, sid) ==
    get_session(redis_client, redis_up, store, mem, sid, now).found

RefreshAccepts(tbl, store, mem, token) ==
    refresh_token(tbl, redis_client, redis_up, store, mem, token, now, tz,
                  next_jti).ok

CurrentUserAccepts(tbl, store, mem, token) ==
    get_current_user(tbl, redis_client, redis_up, store, mem, token, now, tz).ok

C37_Step ==
    (result.op = "idle" /\ PasswordChanged(result'))
        => /\ redis_store' = redis_store
           /\ memory_sessions' = memory_sessions
           /\ \A sid \in SessIds :
                 Resolves(redis_store, memory_sessions, sid)
                    => Resolves(redis_store', memory_sessions', sid)
           /\ \A token \in tokens :
                 /\ RefreshAccepts(users, redis_store, memory_sessions, token)
                       => RefreshAccepts(users', redis_store', memory_sessions',
                                         token)
                 /\ CurrentUserAccepts(users, redis_store, memory_sessions, token)
                       => CurrentUserAccepts(users', redis_store',
                                             memory_sessions', token)

\* C37: reset_password and update_password leave the session store unchanged:
\* every session that resolved before the password change still resolves
\* afterwards, and every token that refresh or get_current_user accepted before
\* the change is accepted after it.
C37_PasswordChangeKeepsSessions == [][C37_Step]_vars

\* a refresh accepted after the password was reset through the mail
C37_Witness ==
    /\ result.op = "refresh"
    /\ result.ok
    /\ \E e \in token_log : e[1] = "reset"
    /\ ~verify_password("Secret123!", users["u1"].password_hash)

\* ==================================================================
\* Claims on a registrant deleted before verification (SpecVanish)
\* ==================================================================
\* a step that starts a verify_email call with the token: the call is answered
\* in the step, or it suspends at the commit
BeginsVerifyEmail(token) ==
    /\ result.op = "idle"
    /\ \/ /\ result'.op = "verify_email"
          /\ result'.args[1] = token
          /\ pending' = pending
       \/ \E p \in pending' \ pending : p.op = "verify_email" /\ p.token = token

C32_Step ==
    \A token \in DOMAIN verification_tokens :
        (/\ BeginsVerifyEmail(token)
         /\ Live(verification_tokens, token, now)
         /\ Gone(verification_tokens[token].user_id))
            => /\ result'.op = "verify_email"
               /\ ~result'.ok
               /\ result'.err = NotFound
               /\ verification_tokens' = verification_tokens
               /\ Live(verification_tokens', token, now')
               /\ users' = users
               /\ pending' = pending

\* C32: a verify_email call with a live token whose user has been soft-deleted
\* fails with NotFoundError and changes nothing: the token stays unused and no
\* user's is_verified flag changes.
C32_VanishedUserNotFound == [][C32_Step]_vars

\* the call has been answered NotFoundError and its token is still live
C32_Witness ==
    /\ result.op = "verify_email"
    /\ result.err = NotFound
    /\ result.args[1] \in DOMAIN verification_tokens
    /\ Live(verification_tokens, result.args[1], now)
    /\ Gone(verification_tokens[result.args[1]].user_id)
    /\ ~users[verification_tokens[result.args[1]].user_id].is_verified

\* ==================================================================
\* Claims on a refresh token used again (SpecReuse)
\* ==================================================================
\* the token under another jti
Rejti(token) == [token EXCEPT !.payload = [@ EXCEPT !.jti = 0]]

\* a refresh token that verifies, of a session that resolves and an active user
Usable(token) ==
    /\ verify_token(token, "refresh", now, tz).ok
    /\ Get(token.payload, "session_id") \in SessIds
    /\ Resolves(redis_store, memory_sessions, Get(token.payload, "session_id"))
    /\ get_by_id(users, Get(token.payload, "sub")) # None

C34_Step ==
    (result.op = "idle" /\ result'.op = "update_current_user_profile")
        => \A u \in DOMAIN users :
              /\ u \in DOMAIN users'
              /\ users'[u].roles = users[u].roles

\* C34: PUT /auth/me never changes a role set, the caller's or another
\* user's, whatever role_ids the request body carries: no step of the handler
\* adds or removes a role, so no sequence of self-service updates does.
C34_OwnProfileKeepsRoles == [][C34_Step]_vars

\* the body named roles, the update was stored, the admin is admin still
C34_Witness ==
    /\ result.op = "update_current_user_profile"
    /\ result.ok
    /\ "role_ids" \in result.args[2].given
    /\ ~result.args[2].role_ids_null
    /\ result.args[2].role_ids = {"r2", "r9"}
    /\ users[result.args[1]].roles = {"admin"}

\* ==================================================================
\* Claims on the authentication middleware (SpecEdge)
\* ==================================================================
IsDispatch == result.op = "dispatch"

\* the request carries a Bearer token that verifies as an access token
ValidBearer(authorization) ==
    /\ authorization.scheme = "Bearer"
    /\ verify_token(authorization.token, "access", now, tz).ok

\* the client IP of the request has max_attempts failures inside the window
LimitedIp(client_ip) ==
    is_rate_limited(attempts, IF client_ip # None THEN client_ip ELSE "unknown",
                    now)

\* C35: a request whose path is not one of the excluded public paths and that
\* carries no valid Bearer access token is answered 401 (or 429, when it is
\* under /auth/ and its IP is rate limited) and call_next is not called; a
\* request under /auth/, not on an excluded path, from a rate-limited client
\* IP is answered 429.
C35_MiddlewareGuards ==
    (IsDispatch /\ result.args[1] \notin exclude_paths)
        => /\ ~ValidBearer(result.args[3])
                 => /\ ~result.ok
                    /\ result.response.status \in {401, 429}
           /\ (/\ Contains(result.args[1], << "/", "auth", "/" >>)
               /\ LimitedIp(result.args[2]))
                 => /\ ~result.ok
                    /\ result.response.status = 429

\* ==================================================================
\* Claims on interleaved authenticate calls (SpecRace)
\* ==================================================================
\* C36: under any interleaving of authenticate calls for one identifier, each
\* of which may be suspended at the user lookup between the rate-limit check
\* and the recording of its failure, at most max_attempts failed password
\* verifications are performed for the identifier within one window.
C36_FailuresBoundedInterleaved ==
    \A identifier \in DOMAIN auth_log :
        FailedInWindow(auth_log, identifier, now) <= max_attempts

\* ==================================================================
\* Claims on the sessions a login and a logout leave alone (Spec)
\* ==================================================================
C38_Step ==
    /\ (result.op = "idle" /\ result'.op = "login" /\ result'.ok)
          => /\ result'.sid \notin SessIds
             /\ result'.sid \in DOMAIN redis_store' \cup DOMAIN memory_sessions'
             /\ Drop(redis_store', result'.sid) = redis_store
             /\ Drop(memory_sessions', result'.sid) = memory_sessions
    /\ (result.op = "idle" /\ result'.op = "logout")
          => IF verify_token(result'.token, "access", now, tz).ok
             THEN /\ Drop(redis_store', result'.sid)
                        = Drop(redis_store, result'.sid)
                  /\ Drop(memory_sessions', result'.sid)
                        = Drop(memory_sessions, result'.sid)
             ELSE /\ redis_store' = redis_store
                  /\ memory_sessions' = memory_sessions

\* C38: each successful login creates a session under an id that no existing
\* session has and leaves every existing session as it was; logout deletes at
\* most the session named in the presented token (none when the token fails
\* verification): every other session, of the same user and of other users,
\* is held exactly as before.
C38_OnlyNamedSessionTouched == [][C38_Step]_vars

\* a logout has deleted its session while another session is still held
C38_Witness ==
    /\ result.op = "logout"
    /\ result.ret = TRUE
    /\ result.sid \notin SessIds
    /\ SessIds # {}

\* ==================================================================
\* Claims on the names of deleted users (SpecDir)
\* ==================================================================
\* no two rows, active or not, share a username or an email
UniqueNames(tbl) ==
    \A a \in DOMAIN tbl, b \in DOMAIN tbl :
        a # b => /\ tbl[a].username # tbl[b].username
                 /\ tbl[a].email # tbl[b].email

\* the call asks for the username or the email of a soft-deleted user
ReusesGone(r) ==
    \E u \in GoneUsers :
        \/ /\ r.op = "create_user"
           /\ \/ users[u].username = r.args[1].username
              \/ users[u].email = r.args[1].email
        \/ /\ r.op = "register"
           /\ r.err # PasswordsDoNotMatch
           /\ users[u].email = r.args[1]

C39_Step ==
    /\ (result' # result /\ ReusesGone(result'))
          => /\ ~result'.ok
             /\ result'.err = Conflict
             /\ users' = users
    /\ UniqueNames(users')

\* C39: a soft-deleted user's username and email stay reserved: after
\* delete_user(u) every create_user or register that reuses u's username or
\* email fails with ConflictError, and no two users, active or not, ever share
\* a username or an email.
C39_DeletedNamesReserved == [][C39_Step]_vars

\* the part of C39 that the table keeps: the names of a deleted user are not
\* given out again
C39_Reserved ==
    [][ /\ (result' # result /\ ReusesGone(result'))
              => ~result'.ok /\ users' = users
        /\ UniqueNames(users') ]_vars

====
